---- MODULE Spec2Model ----
(***************************************************************************)
(* A model of the statement-, declaration- and type-lowering engine of     *)
(* gotopython (package compiler): XCompiler's lowering functions as        *)
(* operators over bounded source trees, and one action per entry point.    *)
(***************************************************************************)
EXTENDS Integers, Sequences, FiniteSets, TLC

VARIABLES
    global,      \* XCompiler.global
    commentMap,  \* XCompiler.commentMap # nil
    scope,       \* XCompiler.scope: the naming scope
    pc,          \* "idle": ready for a call; "done": a call returned; "aborted": a call panicked
    op,          \* the entry point last called
    input,       \* the source construct it was given
    entry,       \* the scope the call started from
    output,      \* what it returned
    run          \* the run of a lowered loop beside its source loop

vars == <<global, commentMap, scope, pc, op, input, entry, output, run>>

(***************************************************************************)
(* Bounds of the model.                                                    *)
(***************************************************************************)
MaxClauses == 3   \* case clauses of a switch
MaxNames == 2     \* names of one variable declaration
MaxHoist == 1     \* hoisted statements one expression produces
MaxDefers == 3    \* statements of a function body
MaxScope == 1     \* names in use when a call is made
MaxArrayLen == 2  \* length of an array type
MaxNested == 2    \* statements of a function body whose statements nest
MaxTopDecls == 3  \* top-level declarations of the files of a package
MaxIters == 2     \* iterations after which the condition of a loop that is run fails

\* v named, for the rest of a definition
With(v, K(_)) == K(v)

(***************************************************************************)
(* Identifiers.  A target identifier is a base string and a numeric        *)
(* suffix; suffix 0 is the bare string.                                    *)
(***************************************************************************)
Ident(base, n) == [base |-> base, n |-> n]

\* py.Identifier(s): the identifier made of the string itself
Raw(base) == Ident(base, 0)

pySelf == Raw("self")

(***************************************************************************)
(* Resolved symbols (types.Object): a source name and an identity.  Two    *)
(* objects may carry the same source name (a local declaration shadowing a *)
(* package-level one).                                                     *)
(***************************************************************************)
Object(name, uid) == [name |-> name, uid |-> uid]

VarTag == Object("tag", 1)
VarA == Object("a", 1)
VarB == Object("b", 1)
TypeT == Object("T", 1)
TypeT2 == Object("T", 2)

(***************************************************************************)
(* The naming scope: the names given to resolved symbols, and the          *)
(* synthetic temporaries in use.                                           *)
(***************************************************************************)
newScope == [ids |-> {}, temps |-> {}]

UsedNames(sc) == {p.id : p \in sc.ids} \cup sc.temps

\* the first identifier on base that is not in use
Fresh(sc, base) ==
    Ident(base, CHOOSE n \in 0..Cardinality(UsedNames(sc)) :
                    /\ Ident(base, n) \notin UsedNames(sc)
                    /\ \A m \in 0..(n - 1) : Ident(base, m) \in UsedNames(sc))

HasID(sc, obj) == \E p \in sc.ids : p.obj = obj

\* scope.objID: the stable name of a resolved symbol, assigned at its first lowering
objID(sc, obj) ==
    IF HasID(sc, obj)
    THEN [id |-> (CHOOSE p \in sc.ids : p.obj = obj).id, sc |-> sc]
    ELSE With(Fresh(sc, obj.name), LAMBDA id :
             [id |-> id, sc |-> [sc EXCEPT !.ids = @ \cup {[obj |-> obj, id |-> id]}]])

\* scope.tempID: a synthetic temporary that no symbol and no other temporary uses
tempID(sc, base) ==
    With(Fresh(sc, base), LAMBDA id : [id |-> id, sc |-> [sc EXCEPT !.temps = @ \cup {id}]])

\* scope.nested: the child scope of a function body
nested(sc) == sc

\* XCompiler.identifier
identifier(sc, obj) == objID(sc, obj)

(***************************************************************************)
(* Target (Python) syntax.                                                 *)
(***************************************************************************)
Name(id) == [k |-> "Name", id |-> id]
Call(f, args) == [k |-> "Call", func |-> f, args |-> args]
Tuple(elts) == [k |-> "Tuple", elts |-> elts]
Num(n) == [k |-> "Num", n |-> n]
NumInt(i) == [k |-> "Num", int |-> i]
Attribute(value, attr) == [k |-> "Attribute", value |-> value, attr |-> attr]
pyNone == [k |-> "NameConstant", value |-> "None"]
pyFalse == [k |-> "NameConstant", value |-> "False"]
pyTrue == [k |-> "NameConstant", value |-> "True"]
pyEmptyStr == [k |-> "Str", s |-> ""]
pyRange == Name(Raw("range"))
pyLen == Name(Raw("len"))
pyEnumerate == Name(Raw("enumerate"))
pyType == Name(Raw("type"))
pyReversed == Name(Raw("reversed"))
NilExpr == [k |-> "NilExpr"]

Assign(targets, value) == [k |-> "Assign", targets |-> targets, value |-> value]
If(test, body, orelse) == [k |-> "If", test |-> test, body |-> body, orelse |-> orelse]
For(target, iter, body) == [k |-> "For", target |-> target, iter |-> iter, body |-> body]
While(test, body) == [k |-> "While", test |-> test, body |-> body]
Try(body, handlers, finalbody) ==
    [k |-> "Try", body |-> body, handlers |-> handlers, finalbody |-> finalbody]
AugAssign(target, o, value) == [k |-> "AugAssign", target |-> target, op |-> o, value |-> value]
Return(value) == [k |-> "Return", value |-> value]
Delete(targets) == [k |-> "Delete", targets |-> targets]
Subscript(value, index) == [k |-> "Subscript", value |-> value, index |-> index]
Compare(left, right) == [k |-> "Compare", left |-> left, op |-> "Eq", right |-> right]
BoolOr(values) == [k |-> "BoolOp", op |-> "Or", values |-> values]
Invert(operand) == [k |-> "UnaryOp", op |-> "Invert", operand |-> operand]
Starred(value) == [k |-> "Starred", value |-> value]
List(elts) == [k |-> "List", elts |-> elts]
pyKeyError == [k |-> "Name", id |-> [base |-> "KeyError", n |-> 0]]
ExprStmt(value) == [k |-> "ExprStmt", value |-> value]
FunctionDef(name, args, defaults, body) ==
    [k |-> "FunctionDef", name |-> name, args |-> args, defaults |-> defaults, body |-> body]
ClassDef(name, body) == [k |-> "ClassDef", name |-> name, body |-> body]
Pass == [k |-> "Pass"]
Break == [k |-> "Break"]
Continue == [k |-> "Continue"]
Comment(n) == [k |-> "Comment", of |-> n]
DocString == [k |-> "DocString"]
\* a nil py.Stmt
NilStmt == [k |-> "Nil"]

(***************************************************************************)
(* Results.  A lowering either returns statements and the scope it left,   *)
(* or panics with a message.                                               *)
(***************************************************************************)
Ret(stmts, sc) == [panic |-> FALSE, msg |-> "", stmts |-> stmts, sc |-> sc]
Panic(msg, sc) == [panic |-> TRUE, msg |-> msg, stmts |-> <<>>, sc |-> sc]
ERet(expr) == [panic |-> FALSE, msg |-> "", expr |-> expr]
EPanic(msg) == [panic |-> TRUE, msg |-> msg, expr |-> NilExpr]

(***************************************************************************)
(* Resolved types (types.Type), by category.                               *)
(***************************************************************************)
RefCats == {"Pointer", "Slice", "Map", "Signature", "Interface", "Struct", "Chan"}
BasicInfos == {"String", "Boolean", "Integer", "Float", "Complex", "UnsafePointer"}

TBasic(info) == [cat |-> "Basic", info |-> info]
TRef(cat) == [cat |-> cat]
TStruct(fields) == [cat |-> "Struct", fields |-> fields]
TNamed(obj, under) == [cat |-> "Named", obj |-> obj, under |-> under]
TArray(len, elem) == [cat |-> "Array", len |-> len, elem |-> elem]
TTuple == [cat |-> "Tuple"]

ListComp(elt, n) == [k |-> "ListComp", elt |-> elt, target |-> Name(Raw("_")),
                     iter |-> Call(pyRange, <<NumInt(n)>>)]

\* the zero value of a named type: a call of the type's bare source name
zeroValueNamed(typ) == ERet(Call(Name(Raw(typ.obj.name)), <<>>))

RECURSIVE zeroValue(_)
zeroValue(typ) ==
    CASE typ.cat \in RefCats -> ERet(pyNone)
      [] typ.cat = "Basic" ->
            CASE typ.info = "String" -> ERet(pyEmptyStr)
              [] typ.info = "Boolean" -> ERet(pyFalse)
              [] typ.info = "Integer" -> ERet(Num("0"))
              [] typ.info = "Float" -> ERet(Num("0.0"))
              [] typ.info = "Complex" -> ERet(Num("0.0"))
              [] OTHER -> EPanic("unknown basic type")
      [] typ.cat = "Named" -> zeroValueNamed(typ)
      [] typ.cat = "Array" ->
            With(zeroValue(typ.elem), LAMBDA elt :
                IF elt.panic THEN elt ELSE ERet(ListComp(elt.expr, typ.len)))
      [] OTHER -> EPanic("unknown zero value")

(***************************************************************************)
(* Source expressions and the expression compiler.  Lowering an            *)
(* expression returns a target expression and appends the statements it    *)
(* hoists to the expression compiler's buffer.                             *)
(***************************************************************************)
XIdent(obj) == [ek |-> "Ident", obj |-> obj]
XBlank == [ek |-> "Blank"]
XOp(x, h) == [ek |-> "Op", x |-> x, h |-> h]
XDelete(m, key) == [ek |-> "Delete", m |-> m, key |-> key]
NoExpr == [ek |-> "nil"]

Lowered(x) == [k |-> "Expr", x |-> x]
Hoisted(x, i) == [k |-> "Hoisted", x |-> x, i |-> i]

\* XCompiler.exprCompiler: an empty buffer over the compiler's scope
exprCompiler(sc) == [stmts |-> <<>>, sc |-> sc]

\* XCompiler.isBlank
isBlank(x) == x.ek = "Blank"

\* exprCompiler.compileIdent
compileIdent(e, obj) ==
    With(identifier(e.sc, obj), LAMBDA r : [expr |-> Name(r.id), e |-> [e EXCEPT !.sc = r.sc]])

\* exprCompiler.compileExpr
compileExpr(e, x) ==
    CASE x.ek = "Ident" -> compileIdent(e, x.obj)
      [] x.ek = "Blank" -> [expr |-> Name(Raw("_")), e |-> e]
      [] OTHER ->
            [expr |-> Lowered(x.x),
             e |-> [e EXCEPT !.stmts = @ \o [i \in 1..x.h |-> Hoisted(x.x, i)]]]

RECURSIVE compileExprs(_, _)
compileExprs(e, xs) ==
    IF Len(xs) = 0
    THEN [exprs |-> <<>>, e |-> e]
    ELSE With(compileExpr(e, Head(xs)), LAMBDA r :
         With(compileExprs(r.e, Tail(xs)), LAMBDA rest :
             [exprs |-> <<r.expr>> \o rest.exprs, e |-> rest.e]))

\* makeTuple: the value itself when there is one, else a tuple
makeTuple(elts) == IF Len(elts) = 1 THEN elts[1] ELSE Tuple(elts)

\* exprCompiler.compileExprsTuple: nothing, the one value, or a tuple
compileExprsTuple(e, xs) ==
    With(compileExprs(e, xs), LAMBDA r :
        [expr |-> IF Len(xs) = 0 THEN NilExpr ELSE makeTuple(r.exprs), e |-> r.e])

\* the test of a case clause: none for the default clause, else the
\* disjunction of the clause's expressions, each compared with the tag
caseTest(exprs, tag) ==
    CASE Len(exprs) = 0 -> NilExpr
      [] Len(exprs) = 1 -> IF tag = NilExpr THEN exprs[1] ELSE Compare(tag, exprs[1])
      [] OTHER -> BoolOr([i \in 1..Len(exprs) |->
                            IF tag = NilExpr THEN exprs[i] ELSE Compare(tag, exprs[i])])

\* exprCompiler.compileCaseClauseTest
compileCaseClauseTest(e, clause, tag) ==
    With(compileExprs(e, clause.list), LAMBDA r : [test |-> caseTest(r.exprs, tag), e |-> r.e])

(***************************************************************************)
(* Variable declarations.                                                  *)
(***************************************************************************)
\* the value CompileValueSpec gives name i: hasValue is FALSE when it gives none
valueOf(spec, i, e) ==
    IF Len(spec.values) = 0
    THEN With(zeroValue(spec.names[i].typ), LAMBDA z :
             [panic |-> z.panic, msg |-> z.msg, hasValue |-> TRUE, expr |-> z.expr, e |-> e])
    ELSE IF i <= Len(spec.values)
         THEN With(compileExpr(e, spec.values[i]), LAMBDA r :
                  [panic |-> FALSE, msg |-> "", hasValue |-> TRUE, expr |-> r.expr, e |-> r.e])
         ELSE [panic |-> FALSE, msg |-> "", hasValue |-> FALSE, expr |-> NilExpr, e |-> e]

RECURSIVE valueSpecLoop(_, _, _)
valueSpecLoop(spec, i, acc) ==
    IF i > Len(spec.names) \/ acc.panic
    THEN acc
    ELSE With(compileIdent(acc.e, spec.names[i].obj), LAMBDA t :
         With(valueOf(spec, i, t.e), LAMBDA v :
             valueSpecLoop(spec, i + 1,
                 [panic |-> v.panic, msg |-> v.msg,
                  targets |-> Append(acc.targets, t.expr),
                  values |-> IF v.hasValue THEN Append(acc.values, v.expr) ELSE acc.values,
                  e |-> v.e])))

\* the assignment of a tuple of the values, however many
valueSpecAssignTuple(targets, values) == Assign(targets, Tuple(values))

\* the assignment CompileValueSpec returns, after the hoisted statements
valueSpecAssign(targets, values) == Assign(targets, makeTuple(values))

CompileValueSpec(c, spec) ==
    With(valueSpecLoop(spec, 1,
             [panic |-> FALSE, msg |-> "", targets |-> <<>>, values |-> <<>>,
              e |-> exprCompiler(c.scope)]),
         LAMBDA acc :
             IF acc.panic
             THEN Panic(acc.msg, acc.e.sc)
             ELSE Ret(acc.e.stmts \o <<valueSpecAssign(acc.targets, acc.values)>>, acc.e.sc))

(***************************************************************************)
(* Type declarations.                                                      *)
(***************************************************************************)
RECURSIVE initMethodLoop(_, _, _)
initMethodLoop(fields, i, acc) ==
    IF i > Len(fields) \/ acc.panic
    THEN acc
    ELSE With(objID(acc.sc, fields[i].obj), LAMBDA f :
         With(zeroValue(fields[i].typ), LAMBDA z :
             initMethodLoop(fields, i + 1,
                 [panic |-> z.panic, msg |-> z.msg,
                  args |-> Append(acc.args, f.id),
                  defaults |-> Append(acc.defaults, z.expr),
                  body |-> Append(acc.body,
                              Assign(<<Attribute(Name(pySelf), f.id)>>, Name(f.id))),
                  sc |-> f.sc])))

\* XCompiler.makeInitMethod: one parameter per field, defaulting to its zero
\* value; the names come from a nested scope, which is dropped
makeInitMethod(c, fields) ==
    With(initMethodLoop(fields, 1,
             [panic |-> FALSE, msg |-> "", args |-> <<pySelf>>, defaults |-> <<>>,
              body |-> <<>>, sc |-> nested(c.scope)]),
         LAMBDA acc :
             IF acc.panic
             THEN Panic(acc.msg, c.scope)
             ELSE Ret(<<FunctionDef(Raw("__init__"), acc.args, acc.defaults, acc.body)>>,
                      c.scope))

\* the body of the class of a struct: its doc string, its constructor
structBody(c, spec, fields) ==
    With(IF c.global /\ Len(fields) > 0 THEN makeInitMethod(c, fields) ELSE Ret(<<>>, c.scope),
         LAMBDA init :
             IF init.panic
             THEN init
             ELSE Ret((IF c.global /\ c.commentMap /\ spec.doc THEN <<DocString>> ELSE <<>>)
                          \o init.stmts, c.scope))

compileStructType(c, spec, fields) ==
    With(structBody(c, spec, fields), LAMBDA body :
    With(identifier(c.scope, spec.name), LAMBDA name :
        IF body.panic
        THEN body
        ELSE Ret(<<ClassDef(name.id, IF Len(body.stmts) = 0 THEN <<Pass>> ELSE body.stmts)>>,
                 name.sc)))

compileInterfaceType(c, spec) == Ret(<<NilStmt>>, c.scope)
compileSignature(c, spec) == Ret(<<NilStmt>>, c.scope)
compileMapType(c, spec) == Ret(<<NilStmt>>, c.scope)

\* the field of the struct that stands for a basic or slice type declaration
ValueField(typ) == [obj |-> Object("value", 0), typ |-> typ]

\* the binding a declaration of a name for another named type lowers to
compileNamedAlias(c, spec) ==
    With(identifier(c.scope, spec.name), LAMBDA n :
    With(objID(n.sc, spec.rhs.obj), LAMBDA o :
        Ret(<<Assign(<<Name(n.id)>>, Name(o.id))>>, o.sc)))

\* XCompiler.CompileTypeSpec; the statement returned is stmts[1]
CompileTypeSpec(c, spec) ==
    CASE spec.rhs.cat = "Struct" -> compileStructType(c, spec, spec.rhs.fields)
      [] spec.rhs.cat = "Named" -> compileNamedAlias(c, spec)
      [] spec.rhs.cat = "Interface" -> compileInterfaceType(c, spec)
      [] spec.rhs.cat \in {"Basic", "Slice"} ->
            compileStructType(c, spec, <<ValueField(spec.rhs)>>)
      [] spec.rhs.cat = "Signature" -> compileSignature(c, spec)
      [] spec.rhs.cat = "Map" -> compileMapType(c, spec)
      [] OTHER -> Panic("unknown TypeSpec", c.scope)

(***************************************************************************)
(* Source statements.  cmt is the number of comment lines the comment map  *)
(* attaches to the statement.                                              *)
(***************************************************************************)
NoStmt == [sk |-> "nil", cmt |-> 0]
SExpr(x) == [sk |-> "ExprStmt", cmt |-> 0, x |-> x]
SReturn(results) == [sk |-> "ReturnStmt", cmt |-> 0, results |-> results]
SBlock(list) == [sk |-> "BlockStmt", cmt |-> 0, list |-> list]
SAssign(tok, lhs, rhs) == [sk |-> "AssignStmt", cmt |-> 0, tok |-> tok, lhs |-> lhs, rhs |-> rhs]
SIncDec(tok, x) == [sk |-> "IncDecStmt", cmt |-> 0, tok |-> tok, x |-> x]
SBranch(tok) == [sk |-> "BranchStmt", cmt |-> 0, tok |-> tok]
SEmpty == [sk |-> "EmptyStmt", cmt |-> 0]
SDefer(fun, args) == [sk |-> "DeferStmt", cmt |-> 0, fun |-> fun, args |-> args]
SLabeled(stmt) == [sk |-> "LabeledStmt", cmt |-> 0, stmt |-> stmt]
SSend == [sk |-> "SendStmt", cmt |-> 0]
SGo == [sk |-> "GoStmt", cmt |-> 0]
SSelect == [sk |-> "SelectStmt", cmt |-> 0]
SRange(key, value, x, body) ==
    [sk |-> "RangeStmt", cmt |-> 0, key |-> key, value |-> value, x |-> x, body |-> body]
SFor(init, cond, post, body) ==
    [sk |-> "ForStmt", cmt |-> 0, init |-> init, cond |-> cond, post |-> post, body |-> body]
SIf(init, cond, body, else) ==
    [sk |-> "IfStmt", cmt |-> 0, init |-> init, cond |-> cond, body |-> body, else |-> else]
SDecl(specs) == [sk |-> "DeclStmt", cmt |-> 0, specs |-> specs]
SSwitch(init, tag, clauses) ==
    [sk |-> "SwitchStmt", cmt |-> 0, init |-> init, tag |-> tag, clauses |-> clauses]
\* assign is "AssignStmt" (switch v := x.(type)) or "ExprStmt" (switch x.(type))
STypeSwitch(init, assign, bind, x, clauses) ==
    [sk |-> "TypeSwitchStmt", cmt |-> 0, init |-> init, assign |-> assign, bind |-> bind,
     x |-> x, clauses |-> clauses]
\* a case clause: its expressions (none: the default clause), its body
CaseClause(list, body) == [list |-> list, body |-> body]
WithComment(s, n) == [s EXCEPT !.cmt = n]

ValueSpec(names, values) == [spk |-> "ValueSpec", names |-> names, values |-> values]
TypeSpec(name, rhs, doc) == [spk |-> "TypeSpec", name |-> name, rhs |-> rhs, doc |-> doc]
ImportSpec == [spk |-> "ImportSpec"]
BadSpec == [spk |-> "BadSpec"]


(***************************************************************************)
(* The compiler a call runs on.                                            *)
(***************************************************************************)
XCompiler(g, cm, defers, sc) == [global |-> g, commentMap |-> cm, defers |-> defers, scope |-> sc]
At(c, sc) == [c EXCEPT !.scope = sc]

(***************************************************************************)
(* Statements that hold no statement.                                      *)
(***************************************************************************)
compileIncDecStmt(c, s) ==
    With(compileExpr(exprCompiler(c.scope), s.x), LAMBDA r :
        Ret(r.e.stmts \o <<AugAssign(r.expr, IF s.tok = "INC" THEN "Add" ELSE "Sub", Num("1"))>>,
            r.e.sc))

AugTokens == {"ADD_ASSIGN", "SUB_ASSIGN", "MUL_ASSIGN", "QUO_ASSIGN", "REM_ASSIGN",
              "AND_ASSIGN", "OR_ASSIGN", "XOR_ASSIGN", "SHL_ASSIGN", "SHR_ASSIGN"}

\* XCompiler.augmentedOp: the operator, or "" when it panics
augmentedOp(t) ==
    CASE t = "ADD_ASSIGN" -> "Add"
      [] t = "SUB_ASSIGN" -> "Sub"
      [] t = "MUL_ASSIGN" -> "Mult"
      [] t = "QUO_ASSIGN" -> "FloorDiv"
      [] t = "REM_ASSIGN" -> "Mod"
      [] t = "AND_ASSIGN" -> "BitAnd"
      [] t = "OR_ASSIGN" -> "BitOr"
      [] t = "XOR_ASSIGN" -> "BitXor"
      [] t = "SHL_ASSIGN" -> "LShift"
      [] t = "SHR_ASSIGN" -> "RShift"
      [] OTHER -> ""

compileAssignStmt(c, s) ==
    IF s.tok \in {"ASSIGN", "DEFINE"}
    THEN With(compileExprs(exprCompiler(c.scope), s.lhs), LAMBDA l :
         With(compileExprsTuple(l.e, s.rhs), LAMBDA r :
             Ret(r.e.stmts \o <<Assign(l.exprs, r.expr)>>, r.e.sc)))
    ELSE With(compileExpr(exprCompiler(c.scope), s.lhs[1]), LAMBDA l :
         With(compileExpr(l.e, s.rhs[1]), LAMBDA r :
             IF s.tok = "AND_NOT_ASSIGN"
             THEN Ret(r.e.stmts \o <<AugAssign(l.expr, "BitAnd", Invert(r.expr))>>, r.e.sc)
             ELSE IF augmentedOp(s.tok) = ""
                  THEN Panic("augmentedOp bad token", r.e.sc)
                  ELSE Ret(r.e.stmts \o <<AugAssign(l.expr, augmentedOp(s.tok), r.expr)>>,
                           r.e.sc)))

compileBranchStmt(c, s) ==
    CASE s.tok = "BREAK" -> Ret(<<Break>>, c.scope)
      [] s.tok = "CONTINUE" -> Ret(<<Continue>>, c.scope)
      [] s.tok = "FALLTHROUGH" ->
            Ret(<<ExprStmt(Call(Name(Raw("_TODO_fallthrough")), <<>>))>>, c.scope)
      [] s.tok = "GOTO" -> Ret(<<Pass>>, c.scope)
      [] OTHER -> Panic("unknown BranchStmt", c.scope)

\* XCompiler.compileExprToStmt: the guarded removal for delete(m, k), else nothing
compileExprToStmt(c, x) ==
    IF x.ek = "Delete"
    THEN With(compileExpr(exprCompiler(c.scope), x.m), LAMBDA m :
         With(compileExpr(m.e, x.key), LAMBDA key :
             Ret(key.e.stmts \o
                 <<Try(<<Delete(<<Subscript(m.expr, key.expr)>>)>>,
                       <<[typ |-> pyKeyError, body |-> <<Pass>>]>>, <<>>)>>, key.e.sc)))
    ELSE Ret(<<>>, c.scope)

compileReturnStmt(c, s) ==
    With(compileExprsTuple(exprCompiler(c.scope), s.results), LAMBDA r :
        Ret(r.e.stmts \o <<Return(r.expr)>>, r.e.sc))

compileExprStmt(c, s) ==
    With(compileExprToStmt(c, s.x), LAMBDA compiled :
        IF Len(compiled.stmts) # 0
        THEN compiled
        ELSE With(compileExpr(exprCompiler(c.scope), s.x), LAMBDA r :
                 Ret(r.e.stmts \o <<ExprStmt(r.expr)>>, r.e.sc)))

appendToList(list, item) == ExprStmt(Call(Attribute(list, Raw("append")), <<item>>))

compileDeferStmt(c, s) ==
    IF ~c.global
    THEN Ret(<<>>, c.scope)
    ELSE With(compileExpr(exprCompiler(c.scope), s.fun), LAMBDA f :
         With(compileExprs(f.e, s.args), LAMBDA a :
             Ret(a.e.stmts \o <<appendToList(c.defers, makeTuple(<<f.expr, Tuple(a.exprs)>>))>>,
                 a.e.sc)))

(***************************************************************************)
(* Statements that hold statements.                                        *)
(***************************************************************************)
RECURSIVE compileStmt(_, _)
RECURSIVE compileStmts(_, _)
RECURSIVE switchLoop(_, _, _, _, _)
RECURSIVE typeSwitchLoop(_, _, _, _, _, _)
RECURSIVE declStmtLoop(_, _, _)

\* first, then what rest makes of the scope it left: the statements of both
Then(first, rest(_)) ==
    IF first.panic
    THEN first
    ELSE With(rest(first.sc), LAMBDA r :
             IF r.panic THEN r ELSE Ret(first.stmts \o r.stmts, r.sc))

\* the lowering of an optional statement
compileOpt(c, s) == IF s = NoStmt THEN Ret(<<>>, c.scope) ELSE compileStmt(c, s)

compileStmts(c, stmts) ==
    IF Len(stmts) = 0
    THEN Ret(<<>>, c.scope)
    ELSE Then(compileStmt(c, Head(stmts)), LAMBDA sc : compileStmts(At(c, sc), Tail(stmts)))

\* the lowered body as it is
rangeBodyAsLowered(body) == body

\* the loop body of compileRangeStmt: a single no-op when it lowers to nothing
rangeBody(body) == IF Len(body) = 0 THEN <<Pass>> ELSE body

\* the loop of a range statement, after its body is lowered
rangeLoop(s, e, body) ==
    IF s.key # NoExpr /\ s.value = NoExpr
    THEN With(compileExpr(e, s.key), LAMBDA k :
         With(compileExpr(k.e, s.x), LAMBDA x :
             Ret(x.e.stmts \o
                 <<For(k.expr, Call(pyRange, <<Call(pyLen, <<x.expr>>)>>), body)>>, x.e.sc)))
    ELSE IF s.key # NoExpr /\ s.value # NoExpr
    THEN IF isBlank(s.key)
         THEN With(compileExpr(e, s.value), LAMBDA v :
              With(compileExpr(v.e, s.x), LAMBDA x :
                  Ret(x.e.stmts \o <<For(v.expr, x.expr, body)>>, x.e.sc)))
         ELSE With(compileExpr(e, s.key), LAMBDA k :
              With(compileExpr(k.e, s.value), LAMBDA v :
              With(compileExpr(v.e, s.x), LAMBDA x :
                  Ret(x.e.stmts \o
                      <<For(Tuple(<<k.expr, v.expr>>), Call(pyEnumerate, <<x.expr>>), body)>>,
                      x.e.sc))))
    ELSE IF s.key = NoExpr /\ s.value = NoExpr
    THEN With(compileExpr(e, s.x), LAMBDA x :
             Ret(x.e.stmts \o <<For(Name(Raw("_")), x.expr, body)>>, x.e.sc))
    ELSE Panic("key == nil and value != nil in range for", e.sc)

compileRangeStmt(c, s) ==
    With(compileStmt(c, s.body), LAMBDA b :
        IF b.panic THEN b ELSE rangeLoop(s, exprCompiler(b.sc), rangeBody(b.stmts)))

\* what compileDeclStmt does with a spec
declStmtSpec(c, spec) ==
    CASE spec.spk = "ValueSpec" -> CompileValueSpec(c, spec)
      [] spec.spk = "TypeSpec" -> CompileTypeSpec(c, spec)
      [] OTHER -> Panic("unknown Spec", c.scope)

declStmtLoop(c, specs, i) ==
    IF i > Len(specs)
    THEN Ret(<<>>, c.scope)
    ELSE Then(declStmtSpec(c, specs[i]), LAMBDA sc : declStmtLoop(At(c, sc), specs, i + 1))

compileDeclStmt(c, s) == declStmtLoop(c, s.specs, 1)

\* the chain of conditionals firstIfStmt heads: each clause's else is the next
\* clause, the last clause's else is the default body
RECURSIVE linkChain(_, _, _)
linkChain(ifs, i, defaultBody) ==
    If(ifs[i].test, ifs[i].body,
       IF i = Len(ifs) THEN defaultBody ELSE <<linkChain(ifs, i + 1, defaultBody)>>)

\* the chain without an else branch, and the default body after it
switchTailAfter(ifs, defaultBody) ==
    IF Len(ifs) > 0 THEN <<linkChain(ifs, 1, <<>>)>> \o defaultBody ELSE defaultBody

\* what a switch returns after its init, tag and hoisted statements
switchTail(ifs, defaultBody) ==
    IF Len(ifs) > 0 THEN <<linkChain(ifs, 1, defaultBody)>> ELSE defaultBody

\* a clause is added to what the loop over the clauses has built
addClause(acc, test, prefix, b, e) ==
    IF test = NilExpr
    THEN [acc EXCEPT !.panic = b.panic, !.msg = b.msg, !.e = [e EXCEPT !.sc = b.sc],
                     !.defaultBody = prefix \o b.stmts]
    ELSE [acc EXCEPT !.panic = b.panic, !.msg = b.msg, !.e = [e EXCEPT !.sc = b.sc],
                     !.ifs = Append(@, [test |-> test, body |-> prefix \o b.stmts])]

switchLoop(c, clauses, tag, i, acc) ==
    IF i > Len(clauses) \/ acc.panic
    THEN acc
    ELSE With(compileCaseClauseTest(acc.e, clauses[i], tag), LAMBDA t :
         With(compileStmts(At(c, t.e.sc), clauses[i].body), LAMBDA b :
             switchLoop(c, clauses, tag, i + 1, addClause(acc, t.test, <<>>, b, t.e))))

\* the temporary a value switch keeps its tag in
switchTag(sc) == [id |-> Raw("tag"), sc |-> sc]

\* init, then the tag assignment, then the statements the expressions hoisted
switchHead(init, assignTag, hoisted) == init \o assignTag \o hoisted

\* a switch after its init and tag: the clauses, then the result
switchClauses(c, s, init, tag, x) ==
    With(switchLoop(c, s.clauses, tag, 1,
             [panic |-> FALSE, msg |-> "", e |-> x.e, ifs |-> <<>>, defaultBody |-> <<>>]),
         LAMBDA acc :
             IF acc.panic
             THEN Panic(acc.msg, acc.e.sc)
             ELSE Ret(switchHead(init.stmts,
                                 IF s.tag = NoExpr THEN <<>> ELSE <<Assign(<<tag>>, x.expr)>>,
                                 acc.e.stmts)
                          \o switchTail(acc.ifs, acc.defaultBody), acc.e.sc))

compileSwitchStmt(c, s) ==
    With(compileOpt(c, s.init), LAMBDA init :
        IF init.panic THEN init
        ELSE IF s.tag = NoExpr
        THEN switchClauses(c, s, init, NilExpr, [expr |-> NilExpr, e |-> exprCompiler(init.sc)])
        ELSE With(switchTag(init.sc), LAMBDA t :
                 switchClauses(c, s, init, Name(t.id), compileExpr(exprCompiler(t.sc), s.tag))))

\* types.Info.Implicits: the symbol a binding type switch declares in clause i
Implicits(s, i) == Object(s.bind, 10 + i)

\* the assignment of the clause's typed variable that starts the clause's body
typedAssign(s, symbolicVarName, i, tag, sc) ==
    IF symbolicVarName # ""
    THEN With(objID(sc, Implicits(s, i)), LAMBDA typed :
             [stmts |-> <<Assign(<<Name(typed.id)>>, tag)>>, sc |-> typed.sc])
    ELSE [stmts |-> <<>>, sc |-> sc]

typeSwitchLoop(c, s, tag, symbolicVarName, i, acc) ==
    IF i > Len(s.clauses) \/ acc.panic
    THEN acc
    ELSE With(compileCaseClauseTest(acc.e, s.clauses[i], tag), LAMBDA t :
         With(typedAssign(s, symbolicVarName, i, tag, t.e.sc), LAMBDA a :
         With(compileStmts(At(c, a.sc), s.clauses[i].body), LAMBDA b :
             typeSwitchLoop(c, s, tag, symbolicVarName, i + 1,
                            addClause(acc, t.test, a.stmts, b, t.e)))))

\* a type switch after its init and tag: the clauses, then the result
typeSwitchClauses(c, s, init, tag, x) ==
    With(typeSwitchLoop(c, s, tag, IF s.assign = "AssignStmt" THEN s.bind ELSE "", 1,
             [panic |-> FALSE, msg |-> "", e |-> x.e, ifs |-> <<>>, defaultBody |-> <<>>]),
         LAMBDA acc :
             IF acc.panic
             THEN Panic(acc.msg, acc.e.sc)
             ELSE Ret(switchHead(init.stmts, <<Assign(<<tag>>, Call(pyType, <<x.expr>>))>>,
                                 acc.e.stmts)
                          \o switchTail(acc.ifs, acc.defaultBody), acc.e.sc))

compileTypeSwitchStmt(c, s) ==
    With(compileOpt(c, s.init), LAMBDA init :
        IF init.panic THEN init
        ELSE IF s.assign \notin {"AssignStmt", "ExprStmt"}
        THEN Panic("Unknown statement type in type switch assign", init.sc)
        ELSE With(tempID(init.sc, IF s.assign = "AssignStmt" THEN s.bind ELSE "tag"), LAMBDA t :
                 typeSwitchClauses(c, s, init, Name(t.id),
                                   compileExpr(exprCompiler(t.sc), s.x))))

\* init, then the statements the condition hoisted, then the conditional
ifStmts(init, hoisted, ifStmt) == init \o hoisted \o <<ifStmt>>

compileIfStmt(c, s) ==
    With(compileOpt(c, s.init), LAMBDA init :
        IF init.panic THEN init
        ELSE With(compileExpr(exprCompiler(init.sc), s.cond), LAMBDA test :
             With(compileStmt(At(c, test.e.sc), s.body), LAMBDA body :
                 IF body.panic THEN body
                 ELSE With(compileOpt(At(c, body.sc), s.else), LAMBDA else :
                          IF else.panic THEN else
                          ELSE Ret(ifStmts(init.stmts, test.e.stmts,
                                           If(test.expr, body.stmts, else.stmts)),
                                   else.sc)))))

\* the body of the loop compileForStmt emits: the lowered body, then the lowered post
forBody(body, post) == body \o post

\* the body with the post clause: the body is lowered again, then the post
forBodyPost(c, s, b1) ==
    IF b1.panic \/ s.post = NoStmt
    THEN b1
    ELSE With(compileStmt(At(c, b1.sc), s.body), LAMBDA b2 :
             IF b2.panic THEN b2
             ELSE With(compileStmt(At(c, b2.sc), s.post), LAMBDA post :
                      IF post.panic THEN post
                      ELSE Ret(forBody(b2.stmts, post.stmts), post.sc)))

\* the condition of the loop
forTest(s, e) == IF s.cond = NoExpr THEN [expr |-> pyTrue, e |-> e] ELSE compileExpr(e, s.cond)

compileForStmt(c, s) ==
    With(forBodyPost(c, s, compileStmt(c, s.body)), LAMBDA body :
        IF body.panic THEN body
        ELSE With(compileOpt(At(c, body.sc), s.init), LAMBDA init :
                 IF init.panic THEN init
                 ELSE With(forTest(s, exprCompiler(init.sc)), LAMBDA test :
                          Ret(init.stmts \o test.e.stmts
                                  \o <<While(test.expr,
                                             IF Len(body.stmts) = 0 THEN <<Pass>> ELSE body.stmts)>>,
                              test.e.sc))))

\* the comment statements compileStmt puts before a statement's lowering
commentStmts(c, s) ==
    IF c.global /\ c.commentMap THEN [i \in 1..s.cmt |-> Comment(i)] ELSE <<>>

\* compileStmt's dispatch on the statement's variant
dispatchStmt(c, s) ==
    CASE s.sk = "ReturnStmt" -> compileReturnStmt(c, s)
      [] s.sk = "ForStmt" -> compileForStmt(c, s)
      [] s.sk = "BlockStmt" -> compileStmts(c, s.list)
      [] s.sk = "AssignStmt" -> compileAssignStmt(c, s)
      [] s.sk = "ExprStmt" -> compileExprStmt(c, s)
      [] s.sk = "RangeStmt" -> compileRangeStmt(c, s)
      [] s.sk = "IfStmt" -> compileIfStmt(c, s)
      [] s.sk = "IncDecStmt" -> compileIncDecStmt(c, s)
      [] s.sk = "DeclStmt" -> compileDeclStmt(c, s)
      [] s.sk = "SwitchStmt" -> compileSwitchStmt(c, s)
      [] s.sk = "TypeSwitchStmt" -> compileTypeSwitchStmt(c, s)
      [] s.sk = "BranchStmt" -> compileBranchStmt(c, s)
      [] s.sk = "EmptyStmt" -> Ret(<<>>, c.scope)
      [] s.sk = "DeferStmt" -> compileDeferStmt(c, s)
      [] s.sk = "LabeledStmt" -> compileStmt(c, s.stmt)
      [] s.sk = "SendStmt" -> Ret(<<>>, c.scope)
      [] s.sk = "GoStmt" -> Ret(<<>>, c.scope)
      [] OTHER -> Panic("unknown Stmt", c.scope)

compileStmt(c, s) ==
    With(dispatchStmt(c, s), LAMBDA r :
        IF r.panic THEN r ELSE Ret(commentStmts(c, s) \o r.stmts, r.sc))

(***************************************************************************)
(* Functions.                                                              *)
(***************************************************************************)
\* a walk that stops at the statements of the body
hasDeferShallow(s) ==
    s.sk = "BlockStmt" /\ \E i \in 1..Len(s.list) : s.list[i].sk = "DeferStmt"

\* the walk of addDefers: a defer statement in the body, looking into
\* statements and not into expressions
RECURSIVE hasDefer(_)
hasDefer(s) ==
    CASE s.sk = "DeferStmt" -> TRUE
      [] s.sk = "BlockStmt" -> \E i \in 1..Len(s.list) : hasDefer(s.list[i])
      [] s.sk = "LabeledStmt" -> hasDefer(s.stmt)
      [] s.sk = "IfStmt" -> hasDefer(s.init) \/ hasDefer(s.body) \/ hasDefer(s.else)
      [] s.sk = "ForStmt" -> hasDefer(s.init) \/ hasDefer(s.post) \/ hasDefer(s.body)
      [] s.sk = "RangeStmt" -> hasDefer(s.body)
      [] s.sk \in {"SwitchStmt", "TypeSwitchStmt"} ->
            \/ hasDefer(s.init)
            \/ \E i \in 1..Len(s.clauses) : hasDefer(SBlock(s.clauses[i].body))
      [] OTHER -> FALSE

\* XCompiler.addDefers: the capture list and the statement that initialises
\* it, or no statement
addDefers(c, body) ==
    IF c.global /\ hasDefer(SBlock(body))
    THEN With(tempID(c.scope, "defers"), LAMBDA t :
             [init |-> <<Assign(<<Name(t.id)>>, List(<<>>))>>,
              c |-> [c EXCEPT !.defers = Name(t.id), !.scope = t.sc]])
    ELSE [init |-> <<>>, c |-> c]

RECURSIVE identifiers(_, _)
identifiers(sc, objs) ==
    IF Len(objs) = 0
    THEN [ids |-> <<>>, sc |-> sc]
    ELSE With(identifier(sc, Head(objs)), LAMBDA h :
         With(identifiers(h.sc, Tail(objs)), LAMBDA t :
             [ids |-> <<h.id>> \o t.ids, sc |-> t.sc]))

\* a loop over the captured calls from the first to the last
unwindLoopForward(defers, fun, args) ==
    For(makeTuple(<<fun, args>>), defers, <<ExprStmt(Call(fun, <<Starred(args)>>))>>)

\* the loop that runs the captured calls
unwindLoop(defers, fun, args) ==
    For(makeTuple(<<fun, args>>), Call(pyReversed, <<defers>>),
        <<ExprStmt(Call(fun, <<Starred(args)>>))>>)

\* recv is NoObject when the method's receiver has no name
NoObject == Object("", 0)

\* the receiver's parameter
recvID(sc, isMethod, recv) ==
    IF ~isMethod THEN [id |-> Raw(""), sc |-> sc]
    ELSE IF recv # NoObject THEN identifier(sc, recv)
    ELSE tempID(sc, "self")

\* the body of the function: the lowered body, guarded when the function defers
funcBody(parent, d, b) ==
    IF parent.global /\ Len(d.init) # 0
    THEN With(tempID(b.sc, "fun"), LAMBDA fun :
         With(tempID(fun.sc, "args"), LAMBDA args :
             d.init \o <<Try(b.stmts, <<>>,
                             <<unwindLoop(d.c.defers, Name(fun.id), Name(args.id))>>)>>))
    ELSE b.stmts

\* the function after its defers are set up
funcDef(parent, name, params, body, isMethod, recv, d) ==
    With(recvID(d.c.scope, isMethod, recv), LAMBDA r :
    With(identifiers(r.sc, params), LAMBDA ps :
    With(compileStmts(At(d.c, ps.sc), body), LAMBDA b :
        IF b.panic
        THEN Panic(b.msg, parent.scope)
        ELSE With(funcBody(parent, d, b), LAMBDA pyBody :
                 Ret(<<FunctionDef(name, (IF isMethod THEN <<r.id>> ELSE <<>>) \o ps.ids, <<>>,
                                   IF Len(pyBody) = 0 THEN <<Pass>> ELSE pyBody)>>,
                     parent.scope)))))

CompileFunc(parent, name, params, body, isMethod, recv) ==
    With(At(parent, nested(parent.scope)), LAMBDA c :
        funcDef(parent, name, params, body, isMethod, recv,
                IF parent.global THEN addDefers(c, body) ELSE [init |-> <<>>, c |-> c]))

(***************************************************************************)
(* Declarations.                                                           *)
(***************************************************************************)
NoRecv == [nfields |-> 0]
\* a receiver list: its fields, the names of the first, its name, the form
\* of its type expression and the type's symbol
Recv(nfields, nnames, name, form, typ) ==
    [nfields |-> nfields, nnames |-> nnames, name |-> name, form |-> form, typ |-> typ]
FuncDecl(name, recv, params, body, doc) ==
    [dk |-> "FuncDecl", name |-> name, recv |-> recv, params |-> params, body |-> body,
     doc |-> doc]
GenDecl(specs) == [dk |-> "GenDecl", specs |-> specs]
BadDecl == [dk |-> "BadDecl"]

\* XCompiler.fieldType: the identifier of the receiver's type
fieldType(sc, recv) ==
    IF recv = NoRecv THEN [id |-> Raw(""), sc |-> sc] ELSE identifier(sc, recv.typ)

\* the function's definition, with its doc string
withDocString(f, doc) ==
    IF f.panic \/ ~doc
    THEN f
    ELSE Ret(<<[f.stmts[1] EXCEPT !.body = <<DocString>> \o @]>>, f.sc)

\* XCompiler.CompileFuncDecl; the definition is stmts[1]
CompileFuncDecl(c, decl, withDoc) ==
    IF decl.recv # NoRecv /\ (decl.recv.nfields > 1 \/ decl.recv.nnames > 1)
    THEN Panic("multiple receivers", c.scope)
    ELSE IF decl.recv # NoRecv /\ decl.recv.form \notin {"StarExpr", "Ident"}
    THEN Panic("unknown field type", c.scope)
    ELSE With(fieldType(c.scope, decl.recv), LAMBDA recvType :
         With(identifier(recvType.sc, decl.name), LAMBDA name :
             withDocString(
                 CompileFunc(At(c, name.sc), name.id, decl.params, decl.body,
                             decl.recv # NoRecv,
                             IF decl.recv # NoRecv /\ decl.recv.nnames = 1
                             THEN decl.recv.name ELSE NoObject),
                 withDoc /\ decl.doc)))

CompileImportSpec(c, spec) == Ret(<<NilStmt>>, c.scope)

\* what CompileGenDecl does with a spec that is none of the three it knows:
\* it formats a message and goes on
genDeclUnknownSpec(c) == Ret(<<>>, c.scope)

\* what CompileGenDecl does with a spec
genDeclSpec(c, spec) ==
    CASE spec.spk = "TypeSpec" -> CompileTypeSpec(c, spec)
      [] spec.spk = "ImportSpec" -> CompileImportSpec(c, spec)
      [] spec.spk = "ValueSpec" -> CompileValueSpec(c, spec)
      [] OTHER -> genDeclUnknownSpec(c)

RECURSIVE genDeclLoop(_, _, _)
genDeclLoop(c, specs, i) ==
    IF i > Len(specs)
    THEN Ret(<<>>, c.scope)
    ELSE Then(genDeclSpec(c, specs[i]), LAMBDA sc : genDeclLoop(At(c, sc), specs, i + 1))

CompileGenDecl(c, decl) == genDeclLoop(c, decl.specs, 1)

CompileDecl(c, decl) ==
    CASE decl.dk = "FuncDecl" -> CompileFuncDecl(c, decl, TRUE)
      [] decl.dk = "GenDecl" -> CompileGenDecl(c, decl)
      [] OTHER -> Panic("unknown Decl", c.scope)


(***************************************************************************)
(* Compiler: the files of a package, assembled into one module.  Methods   *)
(* is the map from a class name to its methods, kept as the pairs in the   *)
(* order they were added.                                                  *)
(***************************************************************************)
newModule ==
    [Imports |-> <<>>, Values |-> <<>>, Classes |-> <<>>, Types |-> <<>>, Functions |-> <<>>,
     Methods |-> <<>>]

\* a module as a step of the lowering left it, or the panic that ended it
ModRet(module, sc) == [panic |-> FALSE, msg |-> "", module |-> module, sc |-> sc]
ModPanic(msg, sc) == [panic |-> TRUE, msg |-> msg, module |-> newModule, sc |-> sc]

\* Compiler.withCommentMap: the compiler with the file's comment map
withCommentMap(c) == [c EXCEPT !.commentMap = TRUE]

\* Compiler.compileImportSpec
compileImportSpec(c, module) == ModRet(module, c.scope)

\* what Compiler.compileGenDecl does with the lowering of a type spec: a
\* class goes to the classes, anything else to the types
typeSpecInto(module, compiled) ==
    IF compiled.k = "ClassDef"
    THEN [module EXCEPT !.Classes = Append(@, compiled)]
    ELSE [module EXCEPT !.Types = Append(@, compiled)]

\* what Compiler.compileGenDecl does with a spec
fileGenDeclSpec(c, spec, module) ==
    CASE spec.spk = "TypeSpec" ->
            With(CompileTypeSpec(c, spec), LAMBDA r :
                IF r.panic THEN ModPanic(r.msg, r.sc)
                ELSE ModRet(typeSpecInto(module, r.stmts[1]), r.sc))
      [] spec.spk = "ImportSpec" -> compileImportSpec(c, module)
      [] spec.spk = "ValueSpec" ->
            With(CompileValueSpec(c, spec), LAMBDA r :
                IF r.panic THEN ModPanic(r.msg, r.sc)
                ELSE ModRet([module EXCEPT !.Values = @ \o r.stmts], r.sc))
      [] OTHER -> ModRet(module, c.scope)

\* Compiler.compileGenDecl, from spec i on
RECURSIVE compileGenDecl(_, _, _, _)
compileGenDecl(c, specs, i, module) ==
    IF i > Len(specs)
    THEN ModRet(module, c.scope)
    ELSE With(fileGenDeclSpec(c, specs[i], module), LAMBDA r :
             IF r.panic THEN r ELSE compileGenDecl(At(c, r.sc), specs, i + 1, r.module))

\* what Compiler.compileDecl does with a lowered function: a function with
\* a class goes to the methods of the class, one without to the functions
funcDeclInto(module, class, def) ==
    IF class # Raw("")
    THEN [module EXCEPT !.Methods = Append(@, [class |-> class, def |-> def])]
    ELSE [module EXCEPT !.Functions = Append(@, def)]

\* Compiler.compileDecl; withDoc is the argument its call of CompileFuncDecl
\* leaves out
compileDecl(c, decl, module, withDoc) ==
    CASE decl.dk = "FuncDecl" ->
            With(CompileFuncDecl(c, decl, withDoc), LAMBDA r :
                IF r.panic THEN ModPanic(r.msg, r.sc)
                ELSE ModRet(funcDeclInto(module, fieldType(c.scope, decl.recv).id, r.stmts[1]),
                            r.sc))
      [] decl.dk = "GenDecl" -> compileGenDecl(c, decl.specs, 1, module)
      [] OTHER -> ModPanic("unknown Decl", c.scope)

\* Compiler.compileFile, from declaration i on, with the file's comment map
RECURSIVE compileFile(_, _, _, _, _)
compileFile(c1, decls, i, module, withDoc) ==
    IF i > Len(decls)
    THEN ModRet(module, c1.scope)
    ELSE With(compileDecl(c1, decls[i], module, withDoc), LAMBDA r :
             IF r.panic THEN r ELSE compileFile(At(c1, r.sc), decls, i + 1, r.module, withDoc))

\* the loop of CompileFiles over the files
RECURSIVE compileFiles(_, _, _, _, _)
compileFiles(c, files, i, module, withDoc) ==
    IF i > Len(files)
    THEN ModRet(module, c.scope)
    ELSE With(compileFile(withCommentMap(c), files[i], 1, module, withDoc), LAMBDA r :
             IF r.panic THEN r ELSE compileFiles(At(c, r.sc), files, i + 1, r.module, withDoc))

\* module.Methods[name]: the methods added for the class, in the order added
methodsOf(module, name) ==
    [i \in 1..Len(SelectSeq(module.Methods, LAMBDA m : m.class = name)) |->
        SelectSeq(module.Methods, LAMBDA m : m.class = name)[i].def]

\* the class with the methods of the module that name it
classWithMethods(module, class) == [class EXCEPT !.body = @ \o methodsOf(module, class.name)]

\* the body of the module CompileFiles returns: the values, the classes with
\* their methods, the functions
moduleBody(module) ==
    module.Values
        \o [i \in 1..Len(module.Classes) |-> classWithMethods(module, module.Classes[i])]
        \o module.Functions

\* Compiler.CompileFiles
CompileFiles(c, files, withDoc) ==
    With(compileFiles(c, files, 1, newModule, withDoc), LAMBDA r :
        IF r.panic THEN Panic(r.msg, r.sc) ELSE Ret(moduleBody(r.module), r.sc))

(***************************************************************************)
(* The run of a three-clause loop and of the loop it lowers to, an         *)
(* iteration at a time.  The loop counts i up to MaxIters: its condition   *)
(* holds while i < MaxIters and its post clause adds one to i; b is the    *)
(* value the conditions inside the body take in the iteration.  A lowered  *)
(* expression has the value of its source expression.                      *)
(***************************************************************************)
condHolds(i) == i < MaxIters

\* one statement of the source body run: the counter it leaves and how it
\* ends (normal, continue, break)
RECURSIVE stepSource(_, _, _)
RECURSIVE runSource(_, _, _)
runSource(stmts, i, b) ==
    IF Len(stmts) = 0
    THEN [i |-> i, sig |-> "normal"]
    ELSE With(stepSource(Head(stmts), i, b), LAMBDA r :
             IF r.sig # "normal" THEN r ELSE runSource(Tail(stmts), r.i, b))
stepSource(s, i, b) ==
    CASE s.sk = "BranchStmt" -> [i |-> i, sig |-> IF s.tok = "BREAK" THEN "break" ELSE "continue"]
      [] s.sk = "BlockStmt" -> runSource(s.list, i, b)
      [] s.sk = "IfStmt" -> IF b THEN stepSource(s.body, i, b) ELSE stepSource(s.else, i, b)
      [] s.sk = "IncDecStmt" -> [i |-> IF s.tok = "INC" THEN i + 1 ELSE i - 1, sig |-> "normal"]
      [] OTHER -> [i |-> i, sig |-> "normal"]

\* the state of a loop that has not started
LoopStart == [i |-> 0, done |-> FALSE, post |-> FALSE]

\* one iteration of the source loop: the condition, the body, and the post
\* clause unless the body broke out; 'continue' goes on to the post clause
iterateSource(s, st, b) ==
    IF st.done THEN st
    ELSE IF ~condHolds(st.i) THEN [i |-> st.i, done |-> TRUE, post |-> FALSE]
    ELSE With(stepSource(s.body, st.i, b), LAMBDA r :
             IF r.sig = "break"
             THEN [i |-> r.i, done |-> TRUE, post |-> FALSE]
             ELSE [i |-> stepSource(s.post, r.i, b).i, done |-> FALSE, post |-> TRUE])

\* one statement of the lowered loop's body run; post: the counter's
\* augmented assignment has run
RECURSIVE runTarget(_, _, _, _)
stepTarget(t, i, post, b) ==
    CASE t.k = "Continue" -> [i |-> i, post |-> post, sig |-> "continue"]
      [] t.k = "Break" -> [i |-> i, post |-> post, sig |-> "break"]
      [] t.k = "If" -> runTarget(IF b THEN t.body ELSE t.orelse, i, post, b)
      [] t.k = "AugAssign" ->
            [i |-> IF t.op = "Add" THEN i + 1 ELSE i - 1, post |-> TRUE, sig |-> "normal"]
      [] OTHER -> [i |-> i, post |-> post, sig |-> "normal"]
runTarget(stmts, i, post, b) ==
    IF Len(stmts) = 0
    THEN [i |-> i, post |-> post, sig |-> "normal"]
    ELSE With(stepTarget(Head(stmts), i, post, b), LAMBDA r :
             IF r.sig # "normal" THEN r ELSE runTarget(Tail(stmts), r.i, r.post, b))

\* one iteration of the lowered pre-test loop: the test, then the body;
\* 'continue' goes back to the test
iterateTarget(w, st, b) ==
    IF st.done THEN st
    ELSE IF w.test # pyTrue /\ ~condHolds(st.i) THEN [i |-> st.i, done |-> TRUE, post |-> FALSE]
    ELSE With(runTarget(w.body, st.i, FALSE, b), LAMBDA r :
             [i |-> r.i, done |-> r.sig = "break", post |-> r.post])
(***************************************************************************)
(* The source constructs the calls are given.                              *)
(***************************************************************************)
\* the identity of an opaque source expression
X(name, i) == [name |-> name, i |-> i]

\* an expression hoists no statement, or MaxHoist statements
Hoists == {0, MaxHoist}
Simple(name, i) == SExpr(XOp(X(name, i), 0))

\* a clause code: -2 a default clause with an empty body, -1 a default
\* clause, h >= 0 a clause whose expression hoists h statements
ClauseCodes == {-2, -1} \cup Hoists
ClauseSeqs ==
    UNION {{f \in [1..n -> ClauseCodes] : Cardinality({i \in 1..n : f[i] < 0}) <= 1} :
              n \in 0..MaxClauses}
MkClause(i, code) ==
    CASE code = -2 -> CaseClause(<<>>, <<>>)
      [] code = -1 -> CaseClause(<<>>, <<Simple("body", i)>>)
      [] OTHER -> CaseClause(<<XOp(X("case", i), code)>>, <<Simple("body", i)>>)
MkClauses(f) == [i \in 1..Len(f) |-> MkClause(i, f[i])]

Inits == {NoStmt, Simple("init", 0)}
TagX == X("tag", 0)
SwitchTags == {NoExpr, XIdent(VarTag)} \cup {XOp(TagX, h) : h \in Hoists}
Switches == {SSwitch(init, tag, MkClauses(f)) : init \in Inits, tag \in SwitchTags, f \in ClauseSeqs}
TypeSwitches ==
    {STypeSwitch(init, a[1], a[2], XOp(TagX, h), MkClauses(f)) :
        init \in Inits, a \in {<<"AssignStmt", "v">>, <<"ExprStmt", "">>},
        h \in Hoists, f \in ClauseSeqs}
        \cup {STypeSwitch(NoStmt, "BadStmt", "", XOp(TagX, 0), <<>>)}

RangeBodies == {SBlock(<<>>), SBlock(<<Simple("body", 1)>>), WithComment(SBlock(<<>>), 1),
                SBlock(<<SSelect>>)}
RangeKeys == {NoExpr, XBlank, XOp(X("key", 0), 0)}
RangeValues == {NoExpr, XBlank, XOp(X("value", 0), 0)}
Ranges == {SRange(key, value, XOp(X("xs", 0), h), body) :
              key \in RangeKeys, value \in RangeValues, h \in Hoists, body \in RangeBodies}

Conds == {XOp(X("cond", 0), h) : h \in Hoists}
IfBodies == {SBlock(<<>>), SBlock(<<Simple("body", 1)>>)}
Elses == {NoStmt, SBlock(<<Simple("body", 2)>>),
          SIf(NoStmt, XOp(X("cond", 1), MaxHoist), SBlock(<<Simple("body", 2)>>), NoStmt)}
Ifs == {SIf(init, cond, body, else) :
           init \in Inits, cond \in Conds, body \in IfBodies, else \in Elses}

Posts == {NoStmt, SIncDec("INC", XOp(X("i", 0), 0))}
ForBodies == {SBlock(<<>>), SBlock(<<Simple("body", 1)>>), SBlock(<<SBranch("CONTINUE")>>),
              SBlock(<<SIf(NoStmt, XOp(X("cond", 1), 0), SBlock(<<SBranch("CONTINUE")>>), NoStmt),
                       Simple("body", 1)>>)}
Fors == {SFor(init, cond, post, body) :
            init \in Inits, cond \in {NoExpr} \cup Conds, post \in Posts, body \in ForBodies}

BranchTokens == {"BREAK", "CONTINUE", "FALLTHROUGH", "GOTO", "ILLEGAL"}
XA == XOp(X("a", 0), 0)
XB == XOp(X("b", 0), MaxHoist)
XC == XOp(X("c", 0), MaxHoist)
XD == XOp(X("d", 0), 0)
OtherStmts ==
    {SBranch(t) : t \in BranchTokens}
        \cup {SGo, SSend, SSelect, SEmpty, SLabeled(Simple("body", 1)), SLabeled(SSelect),
              SLabeled(SBranch("GOTO")), WithComment(Simple("body", 1), 1),
              SBlock(<<Simple("body", 1), Simple("body", 2)>>),
              SExpr(XDelete(XA, XB)),
              SDefer(XA, <<XB>>), SIncDec("INC", XB), SIncDec("DEC", XA)}
        \cup {SReturn(r) : r \in {<<>>, <<XA>>, <<XB, XC>>}}
        \cup {SAssign(t, <<XA>>, <<XB>>) :
                 t \in AugTokens \cup {"ASSIGN", "DEFINE", "AND_NOT_ASSIGN", "ILLEGAL"}}
        \cup {SAssign("ASSIGN", <<XA, XB>>, <<XC, XD>>)}

\* resolved types
Field(obj, typ) == [obj |-> obj, typ |-> typ]
Structs == {TStruct(<<>>), TStruct(<<Field(VarA, TBasic("Integer"))>>),
            TStruct(<<Field(VarA, TBasic("String")), Field(VarB, TRef("Slice"))>>),
            TStruct(<<Field(VarA, TBasic("UnsafePointer"))>>)}
Unders == {TStruct(<<>>), TBasic("Integer"), TRef("Slice"), TRef("Interface"),
           TRef("Signature"), TRef("Map")}
NamedTypes == {TNamed(obj, under) : obj \in {TypeT, TypeT2}, under \in Unders}
ElemTypes == {TBasic("Integer"), TBasic("UnsafePointer"), TRef("Pointer"),
              TNamed(TypeT, TStruct(<<>>))}
Arrays == {TArray(n, elem) : n \in 0..MaxArrayLen, elem \in ElemTypes}
              \cup {TArray(1, TArray(MaxArrayLen, TBasic("String")))}
Types == {TBasic(info) : info \in BasicInfos} \cup {TRef(cat) : cat \in RefCats \ {"Struct"}}
             \cup Structs \cup NamedTypes \cup Arrays \cup {TTuple}

\* variable declarations: all names of one type and no value, one value for
\* each name, or one value for several names
VarNames == <<"a", "b", "c", "d">>
VarObj(i) == Object(VarNames[i], 1)
Declared(n, typ) == [i \in 1..n |-> [obj |-> VarObj(i), typ |-> typ]]
InitX(i, h) == XOp(X("init", i), h)
ValueSpecs ==
    {ValueSpec(Declared(n, typ), <<>>) : n \in 1..MaxNames, typ \in Types}
        \cup UNION {{ValueSpec(Declared(n, TBasic("Integer")), [i \in 1..n |-> InitX(i, hs[i])]) :
                        hs \in [1..n -> Hoists]} : n \in 1..MaxNames}
        \cup {ValueSpec(Declared(n, TBasic("Integer")), <<InitX(1, h)>>) :
                 n \in 2..MaxNames, h \in Hoists}

TypeSpecs ==
    {TypeSpec(name, rhs, doc) :
        name \in {TypeT, TypeT2},
        rhs \in Structs \cup Unders \cup {TNamed(TypeT, TStruct(<<>>)), TBasic("String"),
                                        TRef("Pointer"), TRef("Chan"), TArray(1, TBasic("Integer"))},
        doc \in BOOLEAN}

\* the specs of the declarations
DeclSpecs == {ValueSpec(Declared(1, TBasic("Integer")), <<>>),
              ValueSpec(Declared(1, TBasic("UnsafePointer")), <<>>),
              ValueSpec(Declared(1, TNamed(TypeT2, TStruct(<<>>))), <<>>),
              TypeSpec(TypeT2, TStruct(<<>>), FALSE), TypeSpec(TypeT, TRef("Interface"), FALSE),
              TypeSpec(TypeT, TRef("Signature"), FALSE), TypeSpec(TypeT, TRef("Map"), FALSE),
              TypeSpec(TypeT, TRef("Chan"), FALSE), ImportSpec, BadSpec}
SpecLists == {<<s>> : s \in DeclSpecs} \cup {<<s, t>> : s, t \in DeclSpecs}

VarF == Object("f", 1)
VarR == Object("r", 1)
Recvs == {NoRecv, Recv(1, 1, VarR, "Ident", TypeT), Recv(1, 0, NoObject, "StarExpr", TypeT),
          Recv(1, 2, VarR, "Ident", TypeT), Recv(2, 1, VarR, "Ident", TypeT),
          Recv(1, 1, VarR, "SelectorExpr", TypeT)}
Decls == {BadDecl} \cup {GenDecl(specs) : specs \in SpecLists}
             \cup {FuncDecl(VarF, recv, <<VarA>>, body, doc) :
                      recv \in Recvs, body \in {<<>>, <<Simple("body", 1)>>, <<SSelect>>},
                      doc \in BOOLEAN}

\* function bodies: statement i is a defer, a defer in a conditional, a
\* defer under a label, or no defer
DeferX(i) == SDefer(XOp(X("f", i), 0), <<XOp(X("x", i), MaxHoist)>>)
BodyCodes == {"defer", "if", "labeled", "plain"}
MkBodyStmt(i, code) ==
    CASE code = "defer" -> DeferX(i)
      [] code = "if" -> SIf(NoStmt, XOp(X("cond", i), 0), SBlock(<<DeferX(i)>>), NoStmt)
      [] code = "labeled" -> SLabeled(DeferX(i))
      [] OTHER -> Simple("body", i)
Bodies == UNION {{[i \in 1..n |-> MkBodyStmt(i, f[i])] : f \in [1..n -> BodyCodes]} :
                    n \in 0..MaxDefers}
\* function bodies whose statements nest: statement i is a loop with a post
\* clause, a range loop, a switch clause, a type switch's default clause or a
\* loop in an else branch, each holding one defer, or a loop or a go
\* statement holding none
NestedCodes == {"for", "range", "switch", "typeswitch", "else", "loop", "go"}
MkNestedStmt(i, code) ==
    CASE code = "for" ->
            SFor(NoStmt, XOp(X("cond", i), 0), SIncDec("INC", XOp(X("i", i), 0)),
                 SBlock(<<DeferX(i)>>))
      [] code = "range" -> SRange(NoExpr, NoExpr, XOp(X("xs", i), 0), SBlock(<<DeferX(i)>>))
      [] code = "switch" ->
            SSwitch(NoStmt, NoExpr,
                    <<CaseClause(<<XOp(X("case", i), 0)>>, <<DeferX(i)>>),
                      CaseClause(<<>>, <<Simple("body", i)>>)>>)
      [] code = "typeswitch" ->
            STypeSwitch(NoStmt, "ExprStmt", "", XOp(X("v", i), 0),
                        <<CaseClause(<<>>, <<DeferX(i)>>)>>)
      [] code = "else" ->
            SIf(NoStmt, XOp(X("cond", i), 0), SBlock(<<>>),
                SBlock(<<SFor(NoStmt, NoExpr, NoStmt, SBlock(<<SBlock(<<DeferX(i)>>)>>))>>))
      [] code = "loop" -> SFor(NoStmt, NoExpr, NoStmt, SBlock(<<Simple("body", i)>>))
      [] OTHER -> SGo
NestedBodies == UNION {{[i \in 1..n |-> MkNestedStmt(i, f[i])] : f \in [1..n -> NestedCodes]} :
                          n \in 1..MaxNested}
\* the top-level declarations of a package: a struct type, a map type, a
\* type defined from the struct type, a variable, a function, a method of
\* the struct type, a method of the map type, and a declaration of no kind
TypeM == Object("M", 1)
TypeA == Object("A", 1)
VarG == Object("g", 1)
VarH == Object("h", 1)
TopDecls ==
    {GenDecl(<<TypeSpec(TypeT, TStruct(<<>>), FALSE)>>),
     GenDecl(<<TypeSpec(TypeM, TRef("Map"), FALSE)>>),
     GenDecl(<<TypeSpec(TypeA, TNamed(TypeT, TStruct(<<>>)), FALSE)>>),
     GenDecl(<<ValueSpec(Declared(1, TBasic("Integer")), <<>>)>>),
     FuncDecl(VarF, NoRecv, <<>>, <<>>, TRUE),
     FuncDecl(VarG, Recv(1, 1, VarR, "StarExpr", TypeT), <<>>, <<>>, FALSE),
     FuncDecl(VarH, Recv(1, 0, NoObject, "Ident", TypeM), <<>>, <<>>, FALSE),
     BadDecl}
\* the declarations of a package in some order, each at most once
TopDeclSeqs ==
    UNION {{f \in [1..n -> TopDecls] : \A i, j \in 1..n : f[i] = f[j] => i = j} :
              n \in 0..MaxTopDecls}
\* the declarations in two files, the first k in the first file
InFiles(ds, k) == <<SubSeq(ds, 1, k), SubSeq(ds, k + 1, Len(ds))>>

Receivers == {<<FALSE, NoObject>>, <<TRUE, NoObject>>, <<TRUE, VarR>>}
Params == {<<>>, <<VarA, VarB>>}

(***************************************************************************)
(* The calls.                                                              *)
(***************************************************************************)
\* the compiler as it stands between calls
Cur == XCompiler(global, commentMap, NilExpr, scope)

\* a call is made on a ready compiler
Ready == pc = "idle" /\ Cardinality(UsedNames(scope)) <= MaxScope

\* entry point name, given in, returns or panics with r
Returns(name, in, r) ==
    /\ Ready
    /\ op' = name
    /\ input' = in
    /\ entry' = scope
    /\ output' = [panic |-> r.panic, msg |-> r.msg, stmts |-> r.stmts]
    /\ scope' = r.sc
    /\ pc' = IF r.panic THEN "aborted" ELSE "done"
    /\ UNCHANGED <<global, commentMap, run>>

\* a reference to a resolved symbol is lowered
LowerIdent ==
    \E obj \in {VarTag, VarA} :
        /\ Ready
        /\ op' = "identifier"
        /\ input' = [obj |-> obj]
        /\ entry' = scope
        /\ output' = [panic |-> FALSE, msg |-> "", id |-> identifier(scope, obj).id]
        /\ scope' = identifier(scope, obj).sc
        /\ pc' = "done"
        /\ UNCHANGED <<global, commentMap, run>>

DoSwitch == \E s \in Switches : Returns("compileStmt", s, compileStmt(Cur, s))

DoTypeSwitch == \E s \in TypeSwitches : Returns("compileStmt", s, compileStmt(Cur, s))

DoRange == \E s \in Ranges : Returns("compileStmt", s, compileStmt(Cur, s))

DoIf == \E s \in Ifs : Returns("compileStmt", s, compileStmt(Cur, s))

DoFor == \E s \in Fors : Returns("compileStmt", s, compileStmt(Cur, s))

DoStmt == \E s \in OtherStmts : Returns("compileStmt", s, compileStmt(Cur, s))

DoZeroValue ==
    \E typ \in Types :
        /\ Ready
        /\ op' = "zeroValue"
        /\ input' = [typ |-> typ]
        /\ entry' = scope
        /\ output' = zeroValue(typ)
        /\ pc' = IF zeroValue(typ).panic THEN "aborted" ELSE "done"
        /\ UNCHANGED <<global, commentMap, scope, run>>

DoValueSpec == \E spec \in ValueSpecs : Returns("CompileValueSpec", spec, CompileValueSpec(Cur, spec))

DoTypeSpec == \E spec \in TypeSpecs : Returns("CompileTypeSpec", spec, CompileTypeSpec(Cur, spec))

DoDeclStmt ==
    \E specs \in SpecLists : Returns("compileDeclStmt", SDecl(specs), compileStmt(Cur, SDecl(specs)))

DoGenDecl ==
    \E specs \in SpecLists :
        Returns("CompileGenDecl", GenDecl(specs), CompileGenDecl(Cur, GenDecl(specs)))

DoDecl == \E decl \in Decls : Returns("CompileDecl", decl, CompileDecl(Cur, decl))

DoFunc ==
    \E body \in Bodies, recv \in Receivers, params \in Params :
        Returns("CompileFunc",
                [name |-> Raw("f"), params |-> params, body |-> body, isMethod |-> recv[1],
                 recv |-> recv[2]],
                CompileFunc(Cur, Raw("f"), params, body, recv[1], recv[2]))

\* a function whose statements nest is lowered
DoFuncNested ==
    \E body \in NestedBodies :
        Returns("CompileFunc",
                [name |-> Raw("f"), params |-> <<>>, body |-> body, isMethod |-> FALSE,
                 recv |-> NoObject],
                CompileFunc(Cur, Raw("f"), <<>>, body, FALSE, NoObject))

DoFuncDecl ==
    \E recv \in Recvs, body \in {b \in Bodies : Len(b) <= 1}, doc \in BOOLEAN :
        Returns("CompileFuncDecl", FuncDecl(VarF, recv, <<VarA>>, body, doc),
                CompileFuncDecl(Cur, FuncDecl(VarF, recv, <<VarA>>, body, doc), FALSE))

\* the files of a package are compiled by a Compiler, whose global flag is set
DoCompileFiles ==
    \E ds \in TopDeclSeqs, k \in 0..MaxTopDecls, withDoc \in BOOLEAN :
        /\ global
        /\ k <= Len(ds)
        /\ Returns("CompileFiles", [files |-> InFiles(ds, k), withDoc |-> withDoc],
                   CompileFiles(Cur, InFiles(ds, k), withDoc))

\* no loop is run
NoRun == [active |-> FALSE]

\* the three-clause loop that was lowered is run beside the loop it lowered to
RunLoop ==
    /\ pc = "done"
    /\ op = "compileStmt"
    /\ input.sk = "ForStmt"
    /\ input.cond # NoExpr
    /\ input.post # NoStmt
    /\ ~run.active
    /\ run' = [active |-> TRUE, stepped |-> FALSE, src |-> LoopStart, tgt |-> LoopStart]
    /\ UNCHANGED <<global, commentMap, scope, pc, op, input, entry, output>>

\* both loops go through one iteration
StepLoop ==
    /\ run.active
    /\ ~(run.src.done /\ run.tgt.done)
    /\ \E b \in BOOLEAN :
           run' = [run EXCEPT !.stepped = TRUE,
                              !.src = iterateSource(input, @, b),
                              !.tgt = iterateTarget(output.stmts[Len(output.stmts)], @, b)]
    /\ UNCHANGED <<global, commentMap, scope, pc, op, input, entry, output>>

\* the caller takes the result; the compiler is ready for the next call
Collect ==
    /\ pc = "done"
    /\ pc' = "idle"
    /\ op' = "none"
    /\ input' = [k |-> "none"]
    /\ output' = [panic |-> FALSE]
    /\ entry' = scope
    /\ run' = NoRun
    /\ UNCHANGED <<global, commentMap, scope>>

\* NewXCompiler, and withCommentMap on a Compiler (whose global flag is set)
Init ==
    /\ global \in BOOLEAN
    /\ commentMap \in BOOLEAN
    /\ commentMap => global
    /\ scope = newScope
    /\ entry = newScope
    /\ pc = "idle"
    /\ op = "none"
    /\ input = [k |-> "none"]
    /\ output = [panic |-> FALSE]
    /\ run = NoRun

\* statement lowering
NextStmt == LowerIdent \/ DoSwitch \/ DoTypeSwitch \/ DoRange \/ DoIf \/ DoFor \/ DoStmt \/ Collect
SpecStmt == Init /\ [][NextStmt]_vars

\* declaration and type lowering, and the dispatch of statements
NextDecl ==
    LowerIdent \/ DoZeroValue \/ DoValueSpec \/ DoTypeSpec \/ DoDeclStmt \/ DoGenDecl \/ DoDecl
        \/ DoStmt \/ Collect
SpecDecl == Init /\ [][NextDecl]_vars

\* function lowering
NextFunc == LowerIdent \/ DoFunc \/ DoFuncNested \/ DoFuncDecl \/ Collect
SpecFunc == Init /\ [][NextFunc]_vars

\* the files of a package
NextFiles == DoCompileFiles \/ Collect
SpecFiles == Init /\ [][NextFiles]_vars

\* three-clause loops, lowered and run
NextLoop == DoFor \/ RunLoop \/ StepLoop \/ Collect
SpecLoop == Init /\ [][NextLoop]_vars

(***************************************************************************)
(* Properties of the lowered output.                                       *)
(***************************************************************************)
\* the statements a call returned
Out == output.stmts
Returned(name) == pc = "done" /\ op = name
Ended(name) == pc \in {"done", "aborted"} /\ op = name
Positions(stmts, kind) == {p \in 1..Len(stmts) : stmts[p].k = kind}
Last(stmts) == stmts[Len(stmts)]
Reverse(s) == [i \in 1..Len(s) |-> s[Len(s) + 1 - i]]

\* the source positions of the clauses that are not the default clause
NonDefault(clauses) ==
    SelectSeq([i \in 1..Len(clauses) |-> i], LAMBDA i : Len(clauses[i].list) > 0)
\* the source positions of the default clause
Defaults(clauses) == {i \in 1..Len(clauses) : Len(clauses[i].list) = 0}

\* the conditional reached from statement s by following k else branches,
\* each holding one statement
RECURSIVE ElseAt(_, _)
ElseAt(s, k) ==
    IF k = 0 THEN s
    ELSE IF s.k = "If" /\ Len(s.orelse) = 1 THEN ElseAt(s.orelse[1], k - 1)
    ELSE NilStmt

\* the clauses whose bodies a statement list holds
BodyIds(stmts) ==
    {stmts[p].value.x.i : p \in {q \in Positions(stmts, "ExprStmt") :
                                    /\ stmts[q].value.k = "Expr"
                                    /\ stmts[q].value.x.name = "body"}}

\* the test is the test of clause i
TestsClause(test, i) ==
    \/ test = Lowered(X("case", i))
    \/ test.k = "Compare" /\ test.right = Lowered(X("case", i))

\* link j of the chain is clause nd[j]; the last link's else branch is the
\* default body
ChainFollows(first, clauses, nd) ==
    /\ \A j \in 1..Len(nd) :
          /\ ElseAt(first, j - 1).k = "If"
          /\ TestsClause(ElseAt(first, j - 1).test, nd[j])
          /\ BodyIds(ElseAt(first, j - 1).body) = {nd[j]}
    /\ Positions(ElseAt(first, Len(nd) - 1).orelse, "If") = {}
    /\ BodyIds(ElseAt(first, Len(nd) - 1).orelse) =
           {i \in Defaults(clauses) : Len(clauses[i].body) > 0}
    /\ Defaults(clauses) = {} => ElseAt(first, Len(nd) - 1).orelse = <<>>

\* C1: the output of a value switch or a type switch ends with the chain of
\* its non-default clauses in source order, whose last else branch is the
\* default clause's body (empty without a default clause); without
\* non-default clauses the output holds no conditional, only the default body
C1_SwitchChain ==
    (Returned("compileStmt") /\ input.sk \in {"SwitchStmt", "TypeSwitchStmt"}) =>
        IF Len(NonDefault(input.clauses)) = 0
        THEN /\ Positions(Out, "If") = {}
             /\ BodyIds(Out) = {i \in Defaults(input.clauses) : Len(input.clauses[i].body) > 0}
        ELSE /\ Positions(Out, "If") = {Len(Out)}
             /\ BodyIds(Out) = {}
             /\ ChainFollows(Last(Out), input.clauses, NonDefault(input.clauses))

\* a type switch of three clauses whose first clause is the default is lowered
C1_Witness ==
    /\ Returned("compileStmt")
    /\ input.sk = "TypeSwitchStmt"
    /\ Len(input.clauses) = 3
    /\ Len(NonDefault(input.clauses)) = 2
    /\ 1 \in Defaults(input.clauses)
    /\ BodyIds(ElseAt(Last(Out), 1).orelse) = {1}

\* the number of defer statements a source statement holds, in its blocks,
\* loops, conditionals and clauses; expressions hold none
RECURSIVE DeferCount(_)
RECURSIVE DeferCountSeq(_)
RECURSIVE DeferCountClauses(_)
DeferCountSeq(stmts) ==
    IF Len(stmts) = 0 THEN 0 ELSE DeferCount(Head(stmts)) + DeferCountSeq(Tail(stmts))
DeferCountClauses(clauses) ==
    IF Len(clauses) = 0 THEN 0
    ELSE DeferCountSeq(Head(clauses).body) + DeferCountClauses(Tail(clauses))
DeferCount(s) ==
    CASE s.sk = "DeferStmt" -> 1
      [] s.sk = "BlockStmt" -> DeferCountSeq(s.list)
      [] s.sk = "LabeledStmt" -> DeferCount(s.stmt)
      [] s.sk = "IfStmt" -> DeferCount(s.body) + DeferCount(s.else)
      [] s.sk \in {"ForStmt", "RangeStmt"} -> DeferCount(s.body)
      [] s.sk \in {"SwitchStmt", "TypeSwitchStmt"} -> DeferCountClauses(s.clauses)
      [] OTHER -> 0

\* the source defers of a function body, in source order
SourceDefers(body) ==
    SelectSeq([i \in 1..Len(body) |-> i], LAMBDA i : DeferCount(body[i]) > 0)
\* the pair the defer of statement i captures
Captured(i) == Tuple(<<Lowered(X("f", i)), Tuple(<<Lowered(X("x", i))>>)>>)

\* the items the statements append to list, in order
RECURSIVE Appends(_, _)
Appends(stmts, list) ==
    IF Len(stmts) = 0 THEN <<>>
    ELSE (CASE Head(stmts).k = "ExprStmt" ->
                  IF /\ Head(stmts).value.k = "Call"
                     /\ Head(stmts).value.func = Attribute(list, Raw("append"))
                  THEN Head(stmts).value.args
                  ELSE <<>>
            [] Head(stmts).k = "If" ->
                  Appends(Head(stmts).body, list) \o Appends(Head(stmts).orelse, list)
            [] Head(stmts).k \in {"While", "For"} -> Appends(Head(stmts).body, list)
            [] OTHER -> <<>>)
         \o Appends(Tail(stmts), list)

\* the order in which a loop over the capture list visits what was appended
Visits(loop, list, appended) ==
    IF loop.iter = Call(pyReversed, <<list>>) THEN Reverse(appended)
    ELSE IF loop.iter = list THEN appended
    ELSE <<>>

\* the loop calls each pair it visits: the callable on the unpacked arguments
CallsEach(loop) ==
    /\ loop.k = "For"
    /\ loop.target.k = "Tuple"
    /\ Len(loop.target.elts) = 2
    /\ loop.body = <<ExprStmt(Call(loop.target.elts[1], <<Starred(loop.target.elts[2])>>))>>

\* body: the lowered function's body; ds: the source defers
DefersUnwind(body, ds) ==
    /\ Len(body) = 2
    /\ body[1].k = "Assign"
    /\ body[1].value = List(<<>>)
    /\ Len(body[1].targets) = 1
    /\ body[2].k = "Try"
    /\ Len(body[2].finalbody) = 1
    /\ CallsEach(body[2].finalbody[1])
    /\ Appends(body[2].body, body[1].targets[1]) = [j \in 1..Len(ds) |-> Captured(ds[j])]
    /\ Visits(body[2].finalbody[1], body[1].targets[1],
              Appends(body[2].body, body[1].targets[1]))
           = [j \in 1..Len(ds) |-> Captured(ds[Len(ds) + 1 - j])]

\* C2 (as stated): a function whose body holds defers d1..dn initialises an
\* empty capture list, appends one pair per defer in the order d1..dn, and
\* its guarded region's exit action visits the list in reverse, dn..d1
C2_DeferOrder_Orig ==
    (Returned("CompileFunc") /\ Len(SourceDefers(input.body)) > 0) =>
        DefersUnwind(Out[1].body, SourceDefers(input.body))

\* C2 (amended): in a compilation context whose global flag is set, a
\* function whose body holds defers d1..dn initialises an empty capture list,
\* appends one pair per defer in the order d1..dn, and its guarded region's
\* exit action visits the list in reverse, dn..d1
C2_DeferOrder ==
    (Returned("CompileFunc") /\ global /\ Len(SourceDefers(input.body)) > 0) =>
        DefersUnwind(Out[1].body, SourceDefers(input.body))

\* a function of three defers, one of them in a conditional, is lowered with
\* the global flag set
C2_Witness ==
    /\ Returned("CompileFunc")
    /\ global
    /\ Len(SourceDefers(input.body)) = 3
    /\ input.body[2].sk = "IfStmt"
    /\ Len(Out[1].body) = 2

\* the target a range loop binds for a key or a value
TargetOf(x) == IF x = XBlank THEN Name(Raw("_")) ELSE Lowered(x.x)
\* the body of the range statement lowers to no statement
LowersEmpty(b) == Len(b.list) = 0 /\ (b.cmt = 0 \/ ~(global /\ commentMap))
\* the body of the range statement holds a statement with no lowering
BodyAborts(b) == \E i \in 1..Len(b.list) : b.list[i].sk = "SelectStmt"

\* the loop of each of the four forms
RangeForm(s, loop) ==
    /\ loop.k = "For"
    /\ (s.key # NoExpr /\ s.value = NoExpr) =>
           /\ loop.target = TargetOf(s.key)
           /\ loop.iter = Call(pyRange, <<Call(pyLen, <<Lowered(s.x.x)>>)>>)
    /\ (s.key # NoExpr /\ s.value # NoExpr /\ s.key = XBlank) =>
           /\ loop.target = TargetOf(s.value)
           /\ loop.iter = Lowered(s.x.x)
    /\ (s.key # NoExpr /\ s.value # NoExpr /\ s.key # XBlank) =>
           /\ loop.target = Tuple(<<TargetOf(s.key), TargetOf(s.value)>>)
           /\ loop.iter = Call(pyEnumerate, <<Lowered(s.x.x)>>)
    /\ (s.key = NoExpr /\ s.value = NoExpr) =>
           /\ loop.target = Name(Raw("_"))
           /\ loop.iter = Lowered(s.x.x)
    /\ IF LowersEmpty(s.body) THEN loop.body = <<Pass>> ELSE Positions(loop.body, "Pass") = {}

DeclaredName(stmt) == IF stmt.k = "ClassDef" THEN stmt.name ELSE stmt.targets[1].id

\* C4: the identifier a type declaration gives a named type (the name of its
\* class, or the name its alias binds) is the identifier a later reference to
\* the type lowers to, and is the constructor that the zero value of the type
\* calls
C4_NamingStable_Orig ==
    (Returned("CompileTypeSpec") /\ Out[1].k \in {"ClassDef", "Assign"}) =>
        /\ DeclaredName(Out[1]) = identifier(scope, input.name).id
        /\ zeroValue(TNamed(input.name, input.rhs)).expr.func.id = DeclaredName(Out[1])

\* an expression mentions the lowering of source expression x
RECURSIVE UsesExpr(_, _)
UsesExpr(e, x) ==
    CASE e.k = "Expr" -> e.x = x
      [] e.k = "Call" -> UsesExpr(e.func, x) \/ \E i \in 1..Len(e.args) : UsesExpr(e.args[i], x)
      [] e.k = "Tuple" -> \E i \in 1..Len(e.elts) : UsesExpr(e.elts[i], x)
      [] e.k = "Compare" -> UsesExpr(e.left, x) \/ UsesExpr(e.right, x)
      [] e.k = "BoolOp" -> \E i \in 1..Len(e.values) : UsesExpr(e.values[i], x)
      [] e.k = "UnaryOp" -> UsesExpr(e.operand, x)
      [] e.k = "Subscript" -> UsesExpr(e.value, x) \/ UsesExpr(e.index, x)
      [] e.k = "Attribute" -> UsesExpr(e.value, x)
      [] e.k = "Starred" -> UsesExpr(e.value, x)
      [] OTHER -> FALSE

\* a statement, or a statement it holds, mentions the lowering of x
RECURSIVE UsesStmt(_, _)
UsesStmt(s, x) ==
    CASE s.k = "Assign" ->
            UsesExpr(s.value, x) \/ \E i \in 1..Len(s.targets) : UsesExpr(s.targets[i], x)
      [] s.k = "AugAssign" -> UsesExpr(s.target, x) \/ UsesExpr(s.value, x)
      [] s.k = "Return" -> UsesExpr(s.value, x)
      [] s.k = "ExprStmt" -> UsesExpr(s.value, x)
      [] s.k = "Delete" -> \E i \in 1..Len(s.targets) : UsesExpr(s.targets[i], x)
      [] s.k = "If" ->
            \/ UsesExpr(s.test, x)
            \/ \E i \in 1..Len(s.body) : UsesStmt(s.body[i], x)
            \/ \E i \in 1..Len(s.orelse) : UsesStmt(s.orelse[i], x)
      [] s.k = "While" -> UsesExpr(s.test, x) \/ \E i \in 1..Len(s.body) : UsesStmt(s.body[i], x)
      [] s.k = "For" ->
            \/ UsesExpr(s.target, x)
            \/ UsesExpr(s.iter, x)
            \/ \E i \in 1..Len(s.body) : UsesStmt(s.body[i], x)
      [] s.k = "Try" -> \E i \in 1..Len(s.body) : UsesStmt(s.body[i], x)
      [] OTHER -> FALSE

\* in a statement list, every hoisted statement of an expression comes before
\* every statement that uses the expression, one such statement follows it,
\* and the hoisted statements of one expression are in the order produced
HoistedFirst(stmts) ==
    \A p \in Positions(stmts, "Hoisted") :
        /\ \E q \in (p + 1)..Len(stmts) : UsesStmt(stmts[q], stmts[p].x)
        /\ \A q \in 1..(p - 1) : ~UsesStmt(stmts[q], stmts[p].x)
        /\ \A q \in Positions(stmts, "Hoisted") :
              (q < p /\ stmts[q].x = stmts[p].x) => stmts[q].i < stmts[p].i

\* C5: in the output of every statement, the statements hoisted while
\* lowering an expression come before the statement that uses the expression,
\* in the order produced; for a switch, the hoisted statements of the tag
\* come before the assignment of the tag temporary
C5_HoistedBefore_Orig == Returned("compileStmt") => HoistedFirst(Out)

\* C5 holds of the statements that are no switch
C5_HoistedBefore_NoSwitch ==
    (Returned("compileStmt") /\ input.sk \notin {"SwitchStmt", "TypeSwitchStmt"}) =>
        HoistedFirst(Out)

\* the values a variable declaration assigns
DeclaredValues(spec) ==
    IF Len(spec.values) = 0
    THEN [i \in 1..Len(spec.names) |-> zeroValue(spec.names[i].typ).expr]
    ELSE [i \in 1..Len(spec.values) |-> Lowered(spec.values[i].x)]
\* one value bare, otherwise a tuple
RightSide(values) == IF Len(values) = 1 THEN values[1] ELSE Tuple(values)

OfSpecs(kinds) ==
    /\ pc \in kinds
    /\ \/ op \in {"compileDeclStmt", "CompileGenDecl"}
       \/ op = "CompileDecl" /\ input.dk = "GenDecl"
\* a statement with no lowering
UnknownStmt(s) ==
    \/ s.sk = "SelectStmt"
    \/ s.sk = "LabeledStmt" /\ s.stmt.sk = "SelectStmt"
    \/ s.sk = "BranchStmt" /\ s.tok \notin {"BREAK", "CONTINUE", "FALLTHROUGH", "GOTO"}
\* a statement that is a non-goal
NonGoalStmt(s) ==
    \/ s.sk \in {"GoStmt", "SendStmt"}
    \/ s.sk = "LabeledStmt" /\ s.stmt.sk # "SelectStmt"
    \/ s.sk = "BranchStmt" /\ s.tok = "GOTO"
\* the declaration of an interface, signature or map type
NonGoalType(spec) ==
    spec.spk = "TypeSpec" /\ spec.rhs.cat \in {"Interface", "Signature", "Map"}

\* C7: a statement, branch token, declaration, declaration spec or type
\* declaration of a variant with no lowering aborts the call, which returns
\* nothing for it; the non-goals (go, send, label, goto, and the declarations
\* of interface, signature and map types) never abort
C7_DispatchAborts_Orig ==
    /\ (Ended("compileStmt") /\ UnknownStmt(input)) => pc = "aborted"
    /\ (Ended("compileStmt") /\ NonGoalStmt(input)) => pc = "done"
    /\ (Ended("CompileDecl") /\ input.dk \notin {"FuncDecl", "GenDecl"}) => pc = "aborted"
    /\ (Ended("CompileTypeSpec")
            /\ input.rhs.cat \notin {"Struct", "Named", "Interface", "Basic", "Slice",
                                     "Signature", "Map"}) => pc = "aborted"
    /\ (Ended("CompileTypeSpec") /\ NonGoalType(input)) => pc = "done"
    /\ (OfSpecs({"done", "aborted"})
            /\ \E i \in 1..Len(input.specs) : input.specs[i].spk = "BadSpec") => pc = "aborted"

\* every dispatch other than that of CompileGenDecl aborts on a variant with
\* no lowering, and the non-goals never abort
C7_OtherDispatches ==
    /\ (Ended("compileStmt") /\ UnknownStmt(input)) => pc = "aborted"
    /\ (Ended("compileStmt") /\ NonGoalStmt(input)) => pc = "done"
    /\ (Ended("CompileDecl") /\ input.dk \notin {"FuncDecl", "GenDecl"}) => pc = "aborted"
    /\ (Ended("CompileTypeSpec")
            /\ input.rhs.cat \notin {"Struct", "Named", "Interface", "Basic", "Slice",
                                     "Signature", "Map"}) => pc = "aborted"
    /\ (Ended("CompileTypeSpec") /\ NonGoalType(input)) => pc = "done"
    /\ (Ended("compileDeclStmt")
            /\ \E i \in 1..Len(input.specs) : input.specs[i].spk = "BadSpec") => pc = "aborted"

\* C8: the zero value of a named type is a construction call when the
\* declaration of the type lowers to a class, and is the absent value when the
\* type's underlying form is an interface, a signature or a map
C8_ZeroConstructible_Orig ==
    (Returned("zeroValue") /\ input.typ.cat = "Named") =>
        IF CompileTypeSpec(Cur, TypeSpec(input.typ.obj, input.typ.under, FALSE)).stmts[1].k
               = "ClassDef"
        THEN output.expr.k = "Call" /\ output.expr.args = <<>>
        ELSE output.expr = pyNone

\* C9: a declaration whose specs all declare interface, signature or map
\* types lowers to no statement, and no returned statement is null
C9_NoNullElement_Orig ==
    (OfSpecs({"done"}) /\ \E i \in 1..Len(input.specs) : NonGoalType(input.specs[i])) =>
        /\ \A p \in 1..Len(Out) : Out[p] # NilStmt
        /\ (\A i \in 1..Len(input.specs) : NonGoalType(input.specs[i])) => Out = <<>>

\* C10: a value switch with a tag assigns the tag once, to a temporary whose
\* name is none of the names given to resolved symbols before the switch
C10_TagTemp_Orig ==
    (Returned("compileStmt") /\ input.sk = "SwitchStmt" /\ input.tag # NoExpr) =>
        /\ Cardinality(Positions(Out, "Assign")) = 1
        /\ \A p \in Positions(Out, "Assign") :
              Out[p].targets[1].id \notin {q.id : q \in entry.ids}

\* the tag temporary of a type switch is none of the names in use before it
C10_TypeSwitchTemp ==
    (Returned("compileStmt") /\ input.sk = "TypeSwitchStmt") =>
        \A p \in Positions(Out, "Assign") : Out[p].targets[1].id \notin UsedNames(entry)

\* the capture lists that the append statements of the target statements
\* name, in order, at any depth
RECURSIVE AppendTargets(_)
AppendTargets(stmts) ==
    IF Len(stmts) = 0 THEN <<>>
    ELSE (CASE Head(stmts).k = "ExprStmt" ->
                  IF /\ Head(stmts).value.k = "Call"
                     /\ Head(stmts).value.func.k = "Attribute"
                     /\ Head(stmts).value.func.attr = Raw("append")
                  THEN <<Head(stmts).value.func.value>>
                  ELSE <<>>
            [] Head(stmts).k = "If" ->
                  AppendTargets(Head(stmts).body) \o AppendTargets(Head(stmts).orelse)
            [] Head(stmts).k \in {"While", "For"} -> AppendTargets(Head(stmts).body)
            [] Head(stmts).k = "Try" ->
                  AppendTargets(Head(stmts).body) \o AppendTargets(Head(stmts).finalbody)
            [] OTHER -> <<>>)
         \o AppendTargets(Tail(stmts))

\* the statements that initialise a capture list or guard a region
CaptureParts(body) ==
    {p \in 1..Len(body) :
        \/ body[p].k = "Try"
        \/ body[p].k = "Assign" /\ body[p].value = List(<<>>)}

\* body: the lowered function's body; n: the defers of the source body
CaptureExactly(body, n) ==
    IF n = 0
    THEN CaptureParts(body) = {} /\ AppendTargets(body) = <<>>
    ELSE /\ Len(body) = 2
         /\ body[1].k = "Assign" /\ body[1].value = List(<<>>) /\ Len(body[1].targets) = 1
         /\ body[2].k = "Try" /\ Len(body[2].finalbody) = 1
         /\ CaptureParts(body[2].body) = {}
         /\ AppendTargets(body[2].body) = [j \in 1..n |-> body[1].targets[1]]

\* C11 (as stated): CompileFunc emits the initialisation of the capture list
\* and the guarded region exactly when the body holds a defer statement, at
\* any depth of blocks, loops, conditionals and clauses; the lowered body then
\* appends to that one list as many times as the body holds defers
C11_CaptureIffDefer_Orig ==
    Returned("CompileFunc") => CaptureExactly(Out[1].body, DeferCountSeq(input.body))

\* C11 (amended): in a compilation context whose global flag is set,
\* CompileFunc emits the initialisation of the capture list and the guarded
\* region exactly when the body holds a defer statement, at any depth of
\* blocks, loops, conditionals and clauses; the lowered body then appends to
\* that one list as many times as the body holds defers. With the flag unset
\* it emits neither, and no append
C11_CaptureIffDefer ==
    Returned("CompileFunc") =>
        CaptureExactly(Out[1].body, IF global THEN DeferCountSeq(input.body) ELSE 0)

\* a function with a defer in a loop that has a post clause and a defer in
\* the default clause of a type switch is lowered with the global flag set
C11_Witness ==
    /\ Returned("CompileFunc")
    /\ global
    /\ Len(input.body) = 2
    /\ input.body[1].sk = "ForStmt" /\ input.body[1].post # NoStmt
    /\ input.body[2].sk = "TypeSwitchStmt"
    /\ DeferCountSeq(input.body) = 2
    /\ Len(AppendTargets(Out[1].body)) = 2

\* what the lowering of a top-level declaration produces: a class, a type
\* binding, a value assignment, a function, or a method of the type recv
Artifact(kind, key, recv) == [kind |-> kind, key |-> key, recv |-> recv]
ArtifactsOf(decl, stmts, sc) ==
    IF decl.dk = "FuncDecl"
    THEN <<Artifact(IF decl.recv = NoRecv THEN "func" ELSE "method", stmts[1].name,
                    fieldType(sc, decl.recv).id)>>
    ELSE [i \in 1..Len(SelectSeq(stmts, LAMBDA s : s # NilStmt)) |->
             Artifact(IF SelectSeq(stmts, LAMBDA s : s # NilStmt)[i].k = "ClassDef" THEN "class"
                      ELSE IF decl.specs[1].spk = "TypeSpec" THEN "binding" ELSE "value",
                      IF SelectSeq(stmts, LAMBDA s : s # NilStmt)[i].k = "ClassDef"
                      THEN SelectSeq(stmts, LAMBDA s : s # NilStmt)[i].name
                      ELSE SelectSeq(stmts, LAMBDA s : s # NilStmt)[i],
                      Raw(""))]

\* the artifacts of the declarations, each lowered by XCompiler.CompileDecl
\* in the scope the ones before it left
RECURSIVE Artifacts(_, _)
Artifacts(c, decls) ==
    IF Len(decls) = 0 THEN <<>>
    ELSE ArtifactsOf(Head(decls), CompileDecl(c, Head(decls)).stmts, c.scope)
             \o Artifacts(At(c, CompileDecl(c, Head(decls)).sc), Tail(decls))

\* the artifacts of the files a call of CompileFiles was given
InputArtifacts ==
    Artifacts(XCompiler(TRUE, TRUE, NilExpr, entry), input.files[1] \o input.files[2])

\* the methods a class of the module body holds, the constructor aside
MethodsIn(class) ==
    SelectSeq(class.body, LAMBDA s : s.k = "FunctionDef" /\ s.name # Raw("__init__"))

\* how often the module body holds the artifact: a class or a function by
\* its name, a method by its name in the body of a class, an assignment as
\* it is
Occurrences(a, body) ==
    CASE a.kind = "class" ->
            Cardinality({p \in 1..Len(body) : body[p].k = "ClassDef" /\ body[p].name = a.key})
      [] a.kind = "func" ->
            Cardinality({p \in 1..Len(body) : body[p].k = "FunctionDef" /\ body[p].name = a.key})
      [] a.kind = "method" ->
            Cardinality({pq \in (1..Len(body)) \X (1..MaxTopDecls + 1) :
                            /\ body[pq[1]].k = "ClassDef"
                            /\ pq[2] <= Len(MethodsIn(body[pq[1]]))
                            /\ MethodsIn(body[pq[1]])[pq[2]].name = a.key})
      [] OTHER -> Cardinality({p \in 1..Len(body) : body[p] = a.key})

\* the artifact is a method of a type that has a class among the artifacts
HasClass(a, arts) ==
    \E p \in 1..Len(arts) : arts[p].kind = "class" /\ arts[p].key = a.recv

\* C12: after CompileFiles, every artifact of a top-level declaration (class,
\* method, function, value assignment, type binding) is in the body of the
\* module exactly once, whatever the order of the declarations and the file
\* each is in
C12_EveryArtifactOnce_Orig ==
    Returned("CompileFiles") =>
        \A p \in 1..Len(InputArtifacts) : Occurrences(InputArtifacts[p], Out) = 1

\* the classes, the values, the functions and the methods of a type that has
\* a class are in the body of the module exactly once, a method in the body
\* of its class wherever the class is declared; a type binding and a method
\* of a type without a class are not in it
C12_ClassedArtifacts ==
    Returned("CompileFiles") =>
        \A p \in 1..Len(InputArtifacts) :
            Occurrences(InputArtifacts[p], Out) =
                IF \/ InputArtifacts[p].kind = "binding"
                   \/ InputArtifacts[p].kind = "method" /\ ~HasClass(InputArtifacts[p], InputArtifacts)
                THEN 0 ELSE 1

\* the source statement holds a continue statement
RECURSIVE Continues(_)
Continues(s) ==
    CASE s.sk = "BranchStmt" -> s.tok = "CONTINUE"
      [] s.sk = "BlockStmt" -> \E i \in 1..Len(s.list) : Continues(s.list[i])
      [] s.sk = "IfStmt" -> Continues(s.body) \/ Continues(s.else)
      [] OTHER -> FALSE

\* the lowered loop has gone the way of the source loop: after every
\* iteration that leaves it running its post clause has run, its counter is
\* the source loop's, and it has ended when the source loop has
FollowsSource ==
    /\ (run.stepped /\ ~run.tgt.done) => run.tgt.post
    /\ run.tgt.i = run.src.i
    /\ run.src.done => run.tgt.done

\* C13: in every iteration of the loop that a three-clause loop lowers to,
\* one that the body ends with continue included, the lowered post clause
\* runs before the condition is tested again, and the lowered loop ends when
\* the source loop does
C13_PostBeforeTest_Orig == run.active => FollowsSource

\* the lowered loop of a three-clause loop whose body holds no continue
\* statement goes the way of the source loop
C13_NoContinue == (run.active /\ ~Continues(input.body)) => FollowsSource

====
